---- MODULE Spec2Model ----
(***************************************************************************)
(* A model of the chess rules engine (ChessBoard) and of the thin game     *)
(* layer (ChessGame) that drives it.                                       *)
(*                                                                         *)
(* Squares are the integers 0..63, rank-major from a1: sq = 8*rank + file  *)
(* with rank 0 = rank 1 and file 0 = file a.  NoSq (-1) is Option::None.   *)
(* Lines are 0..15: Rank1..Rank8 are 0..7 and FileA..FileH are 8..15.      *)
(***************************************************************************)
EXTENDS Integers, Sequences, FiniteSets, TLC

VARIABLES board, game_state, position_counter, game_hist, enforce_flags,
          panicked, fen, parsed

vars == <<board, game_state, position_counter, game_hist, enforce_flags, panicked,
          fen, parsed>>

----------------------------------------------------------------------------
(* Geometry: board/square.rs, board/line.rs *)

NoSq == -1

Squares == 0..63

RankOf(sq) == sq \div 8

FileOf(sq) == sq % 8

\* Square::rank as a Line
rank(sq) == RankOf(sq)

\* Square::file as a Line
file(sq) == 8 + FileOf(sq)

is_file(line) == line >= 8

\* Line::to_vec, as the set of its squares
to_vec(line) ==
    IF is_file(line) THEN {s \in Squares : FileOf(s) = line - 8}
    ELSE {s \in Squares : RankOf(s) = line}

up(sq) == IF sq = NoSq \/ RankOf(sq) = 7 THEN NoSq ELSE sq + 8

down(sq) == IF sq = NoSq \/ RankOf(sq) = 0 THEN NoSq ELSE sq - 8

right(sq) == IF sq = NoSq \/ FileOf(sq) = 7 THEN NoSq ELSE sq + 1

left(sq) == IF sq = NoSq \/ FileOf(sq) = 0 THEN NoSq ELSE sq - 1

up_right(sq) == right(up(sq))

up_left(sq) == left(up(sq))

down_right(sq) == right(down(sq))

down_left(sq) == left(down(sq))

\* one step of a named direction
Step(sq, dir) ==
    CASE dir = "up" -> up(sq)
      [] dir = "down" -> down(sq)
      [] dir = "right" -> right(sq)
      [] dir = "left" -> left(sq)
      [] dir = "up_right" -> up_right(sq)
      [] dir = "up_left" -> up_left(sq)
      [] dir = "down_right" -> down_right(sq)
      [] dir = "down_left" -> down_left(sq)

A1 == 0
B1 == 1
C1 == 2
D1 == 3
E1 == 4
F1 == 5
G1 == 6
H1 == 7
A8 == 56
B8 == 57
C8 == 58
D8 == 59
E8 == 60
F8 == 61
G8 == 62
H8 == 63

\* a square from its file letter index (0 = a) and its rank number (1..8)
Sq(f, r) == 8 * (r - 1) + f

----------------------------------------------------------------------------
(* Pieces and turns: pieces.rs, turn.rs, turn/move.rs *)

Empty == [piece |-> "None", is_white |-> FALSE]

Piece(p, w) == [piece |-> p, is_white |-> w]

CHECK == 1
CHECKMATE == 2
CAPTURE == 4

is_flag_set(flags, check_flag) == (flags \div check_flag) % 2 = 1

SrcNone == [kind |-> "None", val |-> 0]

SrcSquare(sq) == [kind |-> "Square", val |-> sq]

SrcLine(line) == [kind |-> "Line", val |-> line]

Move(p, dst, flags, src, promotion) ==
    [kind |-> "Move", piece |-> p, dst |-> dst, flags |-> flags,
     src |-> src, promotion |-> promotion]

Castling(castling_type, flags) ==
    [kind |-> "Castling", castling |-> castling_type, flags |-> flags]

\* Turn::new
TurnNew(loc, pc, dst) ==
    IF pc.piece = "King" /\ (loc = E1 \/ loc = E8) /\ dst \in {G1, G8}
    THEN Castling("Short", 0)
    ELSE IF pc.piece = "King" /\ (loc = E1 \/ loc = E8) /\ dst \in {C1, C8}
    THEN Castling("Long", 0)
    ELSE Move(pc.piece, dst, 0, SrcSquare(loc), "None")

----------------------------------------------------------------------------
(* The board: board.rs, board/default.rs *)

CastlingRightsDefault ==
    [white_kingside |-> TRUE, white_queenside |-> TRUE,
     black_kingside |-> TRUE, black_queenside |-> TRUE]

BackRank == <<"Rook", "Knight", "Bishop", "Queen", "King", "Bishop", "Knight", "Rook">>

DefaultPieceLocs ==
    [s \in Squares |->
        CASE RankOf(s) = 0 -> Piece(BackRank[FileOf(s) + 1], TRUE)
          [] RankOf(s) = 1 -> Piece("Pawn", TRUE)
          [] RankOf(s) = 6 -> Piece("Pawn", FALSE)
          [] RankOf(s) = 7 -> Piece(BackRank[FileOf(s) + 1], FALSE)
          [] OTHER -> Empty]

\* ChessBoard::default: the standard layout, white to move, all rights, no
\* en-passant target; the clocks of a new game (half-move 0, full move 1)
ChessBoardDefault ==
    [piece_locs |-> DefaultPieceLocs, is_white |-> TRUE,
     castling |-> CastlingRightsDefault, en_passant |-> NoSq,
     half_move_clock |-> 0, full_move_number |-> 1]

get(b, sq) == b.piece_locs[sq]

is_some(b, sq) == b.piece_locs[sq].piece # "None"

find_pieces(b, pc) ==
    {s \in Squares : b.piece_locs[s].piece = pc.piece
                     /\ b.piece_locs[s].is_white = pc.is_white}

get_player_pieces(b, w) ==
    {s \in Squares : is_some(b, s) /\ b.piece_locs[s].is_white = w}

\* the walk of a sliding piece: every square up to and including the first
\* occupied one (the stop_going closure of gen_targets)
RECURSIVE SlideTo(_, _, _)
SlideTo(b, next_sq, dir) ==
    IF next_sq = NoSq THEN {}
    ELSE IF is_some(b, next_sq) THEN {next_sq}
    ELSE {next_sq} \cup SlideTo(b, Step(next_sq, dir), dir)

Slide(b, sq, dir) == SlideTo(b, Step(sq, dir), dir)

AllDirections ==
    {"up", "down", "right", "left", "up_right", "up_left", "down_right", "down_left"}

RookDirections == {"up", "down", "right", "left"}

BishopDirections == {"up_right", "up_left", "down_right", "down_left"}

KnightJumps(loc) ==
    {right(up(up(loc))), left(up(up(loc))), up(right(right(loc))),
     down(right(right(loc))), right(down(down(loc))), left(down(down(loc))),
     up(left(left(loc))), down(left(left(loc)))} \ {NoSq}

gen_targets(b, loc) ==
    LET pc == b.piece_locs[loc] IN
    CASE pc.piece = "King" -> {Step(loc, d) : d \in AllDirections} \ {NoSq}
      [] pc.piece = "Queen" -> UNION {Slide(b, loc, d) : d \in AllDirections}
      [] pc.piece = "Rook" -> UNION {Slide(b, loc, d) : d \in RookDirections}
      [] pc.piece = "Bishop" -> UNION {Slide(b, loc, d) : d \in BishopDirections}
      [] pc.piece = "Knight" -> KnightJumps(loc)
      [] pc.piece = "Pawn" ->
            IF pc.is_white THEN {up_right(loc), up_left(loc)} \ {NoSq}
            ELSE {down_right(loc), down_left(loc)} \ {NoSq}
      [] OTHER -> {}

\* a variant without the double step from the starting rank
PawnPushesSingle(b, loc) ==
    LET one == IF b.piece_locs[loc].is_white THEN up(loc) ELSE down(loc)
    IN  IF one # NoSq /\ ~is_some(b, one) THEN {one} ELSE {}

\* the non-capturing pawn advances appended by gen_moves
PawnPushes(b, loc) ==
    LET pc == b.piece_locs[loc]
        one == IF pc.is_white THEN up(loc) ELSE down(loc)
        two == IF pc.is_white THEN up(up(loc)) ELSE down(down(loc))
        start_rank == IF pc.is_white THEN 1 ELSE 6
    IN  (IF one # NoSq /\ ~is_some(b, one) THEN {one} ELSE {})
        \cup (IF two # NoSq /\ rank(loc) = start_rank
                 /\ ~is_some(b, two) /\ ~is_some(b, one)
              THEN {two} ELSE {})

\* the filters of gen_moves over the targets: no friendly destination, and
\* for a pawn only an enemy piece or the en-passant target
MovesAmong(b, loc, targets) ==
    IF b.piece_locs[loc].piece = "Pawn"
    THEN {sq \in targets :
            /\ ~is_some(b, sq) \/ get(b, sq).is_white # b.is_white
            /\ \/ is_some(b, sq) /\ get(b, sq).is_white # b.is_white
               \/ b.en_passant # NoSq /\ b.en_passant = sq}
         \cup PawnPushes(b, loc)
    ELSE {sq \in targets : ~is_some(b, sq) \/ get(b, sq).is_white # b.is_white}

gen_moves(b, loc) == MovesAmong(b, loc, gen_targets(b, loc))


----------------------------------------------------------------------------
(* ChessBoard::update_board *)

insert(locs, sq, pc) == [locs EXCEPT ![sq] = pc]

remove(locs, sq) == [locs EXCEPT ![sq] = Empty]

\* a variant of the castling branch in which black's long castling takes the
\* king's rook
CastleSquaresWrongRook(castling_type, w) ==
    CASE castling_type = "Long" /\ w ->
            [new_king |-> C1, new_rook |-> D1, old_king_loc |-> E1, old_rook_loc |-> A1]
      [] castling_type = "Long" /\ ~w ->
            [new_king |-> C8, new_rook |-> D8, old_king_loc |-> E8, old_rook_loc |-> H8]
      [] castling_type = "Short" /\ w ->
            [new_king |-> G1, new_rook |-> F1, old_king_loc |-> E1, old_rook_loc |-> H1]
      [] castling_type = "Short" /\ ~w ->
            [new_king |-> G8, new_rook |-> F8, old_king_loc |-> E8, old_rook_loc |-> H8]

\* the castling branch: fixed squares by (castling type, side to move)
CastleSquares(castling_type, w) ==
    CASE castling_type = "Long" /\ w ->
            [new_king |-> C1, new_rook |-> D1, old_king_loc |-> E1, old_rook_loc |-> A1]
      [] castling_type = "Long" /\ ~w ->
            [new_king |-> C8, new_rook |-> D8, old_king_loc |-> E8, old_rook_loc |-> A8]
      [] castling_type = "Short" /\ w ->
            [new_king |-> G1, new_rook |-> F1, old_king_loc |-> E1, old_rook_loc |-> H1]
      [] castling_type = "Short" /\ ~w ->
            [new_king |-> G8, new_rook |-> F8, old_king_loc |-> E8, old_rook_loc |-> H8]

\* castling rights after a castling turn of side w
CastleRevoke(c, w) ==
    IF w THEN [c EXCEPT !.white_kingside = FALSE, !.white_queenside = FALSE]
    ELSE [c EXCEPT !.black_kingside = FALSE, !.black_queenside = FALSE]

\* castling rights after a move leaves src (match src)
RevokeBySrc(c, src) ==
    CASE src = A1 -> [c EXCEPT !.white_queenside = FALSE]
      [] src = E1 -> [c EXCEPT !.white_kingside = FALSE, !.white_queenside = FALSE]
      [] src = H1 -> [c EXCEPT !.white_kingside = FALSE]
      [] src = A8 -> [c EXCEPT !.black_queenside = FALSE]
      [] src = E8 -> [c EXCEPT !.black_kingside = FALSE, !.black_queenside = FALSE]
      [] src = H8 -> [c EXCEPT !.black_kingside = FALSE]
      [] OTHER -> c

\* a variant in which a piece landing on a rook's corner gives the right back
RevokeByDstRestores(c, dst) ==
    CASE dst = A1 -> [c EXCEPT !.white_queenside = TRUE]
      [] dst = H1 -> [c EXCEPT !.white_kingside = TRUE]
      [] dst = A8 -> [c EXCEPT !.black_queenside = TRUE]
      [] dst = H8 -> [c EXCEPT !.black_kingside = TRUE]
      [] OTHER -> c

\* castling rights after a move lands on dst (match move.dst)
RevokeByDst(c, dst) ==
    CASE dst = A1 -> [c EXCEPT !.white_queenside = FALSE]
      [] dst = H1 -> [c EXCEPT !.white_kingside = FALSE]
      [] dst = A8 -> [c EXCEPT !.black_queenside = FALSE]
      [] dst = H8 -> [c EXCEPT !.black_kingside = FALSE]
      [] OTHER -> c

\* "update en passant": the new en-passant target after a move
NewEnPassant(b, mv, src) ==
    IF mv.piece = "Pawn"
       /\ (IF b.is_white THEN mv.dst \in to_vec(3) /\ src \in to_vec(1)
           ELSE mv.dst \in to_vec(4) /\ src \in to_vec(6))
    THEN (IF b.is_white THEN up(src) ELSE down(src))
    ELSE NoSq

\* "update the board": the piece map after a move.  The en-passant removal
\* reads self.en_passant after it has been recomputed for this move.
NewPieceLocs(b, mv, src, new_ep) ==
    LET pc == Piece(IF mv.promotion # "None" THEN mv.promotion ELSE mv.piece, b.is_white)
        moved == insert(remove(b.piece_locs, src), mv.dst, pc)
    IN  IF new_ep # NoSq /\ new_ep = mv.dst
        THEN (IF b.is_white THEN remove(moved, down(mv.dst)) ELSE remove(moved, up(mv.dst)))
        ELSE moved

\* "update fifty move rule": the occupancy test reads the board after the
\* piece has been inserted at the destination.
NewHalfMoveClock(b, turn, new_locs) ==
    IF turn.kind = "Move"
    THEN (IF turn.piece = "Pawn" \/ new_locs[turn.dst].piece # "None"
          THEN 0 ELSE b.half_move_clock + 1)
    ELSE b.half_move_clock

\* the board after the turn, from the new piece map, rights and target
ApplyTurn(b, turn, new_locs, new_castling, new_ep) ==
    [piece_locs |-> new_locs,
     is_white |-> ~b.is_white,
     castling |-> new_castling,
     en_passant |-> new_ep,
     half_move_clock |-> NewHalfMoveClock(b, turn, new_locs),
     full_move_number |-> IF ~b.is_white THEN b.full_move_number + 1
                          ELSE b.full_move_number]

\* the castling branch: remove king and rook, insert them at their new squares
CastleLocs(locs, cs, w) ==
    insert(insert(remove(remove(locs, cs.old_king_loc), cs.old_rook_loc),
                  cs.new_king, Piece("King", w)),
           cs.new_rook, Piece("Rook", w))

\* the move branch, given the recomputed en-passant target
MoveTurn(b, mv, new_ep) ==
    ApplyTurn(b, mv, NewPieceLocs(b, mv, mv.src.val, new_ep),
              RevokeByDst(RevokeBySrc(b.castling, mv.src.val), mv.dst), new_ep)

update_board(b, turn) ==
    IF turn.kind = "Castling"
    THEN ApplyTurn(b, turn,
                   CastleLocs(b.piece_locs, CastleSquares(turn.castling, b.is_white), b.is_white),
                   CastleRevoke(b.castling, b.is_white), b.en_passant)
    ELSE MoveTurn(b, turn, NewEnPassant(b, turn, turn.src.val))

----------------------------------------------------------------------------
(* Check detection and termination *)

\* some piece of the other side targets a king of side w (the first king the
\* search finds; there is one)
is_in_check(b, w) ==
    \E king \in find_pieces(b, Piece("King", w)) :
        /\ king = CHOOSE k \in find_pieces(b, Piece("King", w)) : TRUE
        /\ \E s \in get_player_pieces(b, ~w) : king \in gen_targets(b, s)

causes_check(b, turn, w) == is_in_check(update_board(b, turn), w)

\* a variant that takes any two bishops for a draw
is_insufficient_material_any_bishops(b) ==
    LET white_pieces == get_player_pieces(b, TRUE)
        black_pieces == get_player_pieces(b, FALSE)
        Minors(ps) == {s \in ps : b.piece_locs[s].piece \in {"Bishop", "Knight"}}
        Bishops(ps) == {s \in ps : b.piece_locs[s].piece = "Bishop"}
    IN  \/ Cardinality(white_pieces) = 1 /\ Cardinality(black_pieces) = 1
        \/ Cardinality(black_pieces) = 1 /\ Cardinality(white_pieces) = 2
           /\ Cardinality(Minors(white_pieces)) = 1
        \/ Cardinality(white_pieces) = 1 /\ Cardinality(black_pieces) = 2
           /\ Cardinality(Minors(black_pieces)) = 1
        \/ Cardinality(white_pieces) = 2 /\ Cardinality(black_pieces) = 2
           /\ Bishops(white_pieces) # {} /\ Bishops(black_pieces) # {}

is_insufficient_material(b) ==
    LET white_pieces == get_player_pieces(b, TRUE)
        black_pieces == get_player_pieces(b, FALSE)
        Minors(ps) == {s \in ps : b.piece_locs[s].piece \in {"Bishop", "Knight"}}
        Bishops(ps) == {s \in ps : b.piece_locs[s].piece = "Bishop"}
        is_light(s) == (RankOf(s) + FileOf(s)) % 2 = 1
    IN  \/ Cardinality(white_pieces) = 1 /\ Cardinality(black_pieces) = 1
        \/ Cardinality(black_pieces) = 1 /\ Cardinality(white_pieces) = 2
           /\ Cardinality(Minors(white_pieces)) = 1
        \/ Cardinality(white_pieces) = 1 /\ Cardinality(black_pieces) = 2
           /\ Cardinality(Minors(black_pieces)) = 1
        \/ Cardinality(white_pieces) = 2 /\ Cardinality(black_pieces) = 2
           /\ \E wl \in Bishops(white_pieces) : \E bl \in Bishops(black_pieces) :
                 is_light(bl) = is_light(wl)

\* Counter::counts, any count >= 3
is_threefold_repitition(position_hist) ==
    \E k \in DOMAIN position_hist : position_hist[k] >= 3

Continue == [kind |-> "Continue", is_white |-> FALSE, why |-> "None"]

Win(w, why) == [kind |-> "Win", is_white |-> w, why |-> why]

Draw(why) == [kind |-> "Draw", is_white |-> FALSE, why |-> why]

FiftyMoveLimit == 100

\* every generated move of the side to move leaves that side in check
no_moves_left(b) ==
    \A loc \in get_player_pieces(b, b.is_white) :
        \A dst \in gen_moves(b, loc) :
            causes_check(b, TurnNew(loc, b.piece_locs[loc], dst), b.is_white)

\* a variant that names the side to move as the winner of a mate
check_gamestate_mover_wins(b, position_hist) ==
    IF no_moves_left(b)
    THEN (IF is_in_check(b, b.is_white) THEN Win(b.is_white, "Checkmate")
          ELSE Draw("Stalemate"))
    ELSE IF is_insufficient_material(b) THEN Draw("InsufficientMaterial")
    ELSE IF is_threefold_repitition(position_hist) THEN Draw("ThreefoldRepitition")
    ELSE IF b.half_move_clock >= FiftyMoveLimit THEN Draw("FiftyMove")
    ELSE Continue

\* a variant that looks at the half-move clock before the counter
check_gamestate_clock_first(b, position_hist) ==
    IF no_moves_left(b)
    THEN (IF is_in_check(b, b.is_white) THEN Win(~b.is_white, "Checkmate")
          ELSE Draw("Stalemate"))
    ELSE IF is_insufficient_material(b) THEN Draw("InsufficientMaterial")
    ELSE IF b.half_move_clock >= FiftyMoveLimit THEN Draw("FiftyMove")
    ELSE IF is_threefold_repitition(position_hist) THEN Draw("ThreefoldRepitition")
    ELSE Continue

check_gamestate(b, position_hist) ==
    IF no_moves_left(b)
    THEN (IF is_in_check(b, b.is_white) THEN Win(~b.is_white, "Checkmate")
          ELSE Draw("Stalemate"))
    ELSE IF is_insufficient_material(b) THEN Draw("InsufficientMaterial")
    ELSE IF is_threefold_repitition(position_hist) THEN Draw("ThreefoldRepitition")
    ELSE IF b.half_move_clock >= FiftyMoveLimit THEN Draw("FiftyMove")
    ELSE Continue

EmptyCounter == <<>>

causes_checkmate(b, turn) ==
    check_gamestate(update_board(b, turn), EmptyCounter).kind = "Win"


----------------------------------------------------------------------------
(* Validation: validate_and_complete_turn, enforce_flags, gen_flags *)

Ok(v) == [ok |-> TRUE, val |-> v, err |-> "None"]

Err(e) == [ok |-> FALSE, val |-> NoSq, err |-> e]

\* the squares of the pieces pushed onto potential_moves: the pieces of the
\* stated kind whose generated moves contain the destination
potential_moves(b, mv) ==
    {loc \in find_pieces(b, Piece(mv.piece, b.is_white)) : mv.dst \in gen_moves(b, loc)}

\* one candidate (match arm 1)
ResolveOne(cands, mv) ==
    IF mv.src.kind = "None"
    THEN (IF mv.piece # "Pawn" \/ \A source \in cands : file(mv.dst) = file(source)
          THEN Ok(CHOOSE s \in cands : TRUE) ELSE Err("NeedFile"))
    ELSE IF mv.src.kind = "Square"
    THEN (IF mv.src.val \in cands THEN Ok(mv.src.val) ELSE Err("MissingAtSquare"))
    ELSE IF mv.piece = "Pawn"
    THEN (IF is_file(mv.src.val) THEN Ok(CHOOSE s \in cands : TRUE)
          ELSE Err("NeedFile"))
    ELSE Err("OverSpecification")

\* a variant of arm 2 with the two line errors exchanged
ResolveTwoErrorsExchanged(cands, mv) ==
    IF mv.src.kind = "Line"
    THEN (IF cands \cap to_vec(mv.src.val) = {} THEN Err("BothInLine")
          ELSE IF cands \subseteq to_vec(mv.src.val) THEN Err("MissingInLine")
          ELSE Ok(CHOOSE s \in cands : s \in to_vec(mv.src.val)))
    ELSE Err("NeedLine")

\* two candidates (match arm 2)
ResolveTwo(cands, mv) ==
    IF mv.src.kind = "Line"
    THEN (IF cands \cap to_vec(mv.src.val) = {} THEN Err("MissingInLine")
          ELSE IF cands \subseteq to_vec(mv.src.val) THEN Err("BothInLine")
          ELSE Ok(CHOOSE s \in cands : s \in to_vec(mv.src.val)))
    ELSE Err("NeedLine")

\* a variant of the last arm that takes the typed square without looking for
\* a candidate on it
ResolveManyTrustsSquare(cands, mv) ==
    IF mv.src.kind = "Square" THEN Ok(mv.src.val)
    ELSE Err("NeedSquare")

\* three or more candidates (match arm _)
ResolveMany(cands, mv) ==
    IF mv.src.kind = "Square"
    THEN (IF mv.src.val \in cands THEN Ok(mv.src.val) ELSE Err("MissingAtSquare"))
    ELSE Err("NeedSquare")

\* a variant of the resolution that looks at the typed source before the count
ResolveSourceHintFirst(cands, n, mv) ==
    IF n = 0 /\ mv.src.kind = "Square" THEN Err("MissingAtSquare")
    ELSE IF n = 0 THEN Err("NoTarget")
    ELSE IF n = 1 THEN ResolveOne(cands, mv)
    ELSE IF n = 2 THEN ResolveTwo(cands, mv)
    ELSE ResolveMany(cands, mv)

\* the resolution by count of the candidates
ResolveSource(cands, n, mv) ==
    IF n = 0 THEN Err("NoTarget")
    ELSE IF n = 1 THEN ResolveOne(cands, mv)
    ELSE IF n = 2 THEN ResolveTwo(cands, mv)
    ELSE ResolveMany(cands, mv)

ResolveAmong(cands, mv) == ResolveSource(cands, Cardinality(cands), mv)

validate_move(b, mv) == ResolveAmong(potential_moves(b, mv), mv)

castling_squares(is_short, w) ==
    CASE is_short /\ w -> {F1, G1}
      [] is_short /\ ~w -> {F8, G8}
      [] ~is_short /\ w -> {D1, C1, B1}
      [] ~is_short /\ ~w -> {D8, C8, B8}

castling_right(b, is_short) ==
    CASE is_short /\ b.is_white -> b.castling.white_kingside
      [] is_short /\ ~b.is_white -> b.castling.black_kingside
      [] ~is_short /\ b.is_white -> b.castling.white_queenside
      [] ~is_short /\ ~b.is_white -> b.castling.black_queenside

CastlingResult(b, is_short, sqs) ==
    IF (\E s \in get_player_pieces(b, ~b.is_white) : gen_targets(b, s) \cap sqs # {})
       \/ is_in_check(b, b.is_white)
    THEN Err("CastleThroughCheck")
    ELSE IF \E sq \in sqs : is_some(b, sq) THEN Err("CastlePathBlocked")
    ELSE IF ~castling_right(b, is_short) THEN Err("CastleLostRights")
    ELSE Ok(NoSq)

validate_castling(b, castling_type) ==
    CastlingResult(b, castling_type = "Short",
                   castling_squares(castling_type = "Short", b.is_white))

\* Result<Turn, TurnError> from the Result of the validation: val is the turn
Completed(turn, r) ==
    IF turn.kind = "Move" /\ r.ok
    THEN [ok |-> TRUE, val |-> [turn EXCEPT !.src = SrcSquare(r.val)], err |-> "None"]
    ELSE [ok |-> r.ok, val |-> turn, err |-> r.err]

validate_and_complete_turn(b, turn) ==
    IF turn.kind = "Move" THEN Completed(turn, validate_move(b, turn))
    ELSE Completed(turn, validate_castling(b, turn.castling))

\* the first of the three abbreviations that validates, else the turn itself
FirstValid(b, turn, no_src, by_file, by_rank) ==
    IF validate_and_complete_turn(b, no_src).ok THEN no_src
    ELSE IF validate_and_complete_turn(b, by_file).ok THEN by_file
    ELSE IF validate_and_complete_turn(b, by_rank).ok THEN by_rank
    ELSE turn

\* a variant that always drops the source
get_minimum_move_unchecked(b, turn) ==
    IF turn.kind = "Castling" THEN turn
    ELSE [turn EXCEPT !.src = SrcNone]

get_minimum_move(b, turn) ==
    IF turn.kind = "Castling" THEN turn
    ELSE FirstValid(b, turn,
                    [turn EXCEPT !.src = SrcNone],
                    [turn EXCEPT !.src = SrcLine(file(turn.src.val))],
                    [turn EXCEPT !.src = SrcLine(rank(turn.src.val))])

\* the error of enforce_flags, "None" for Ok(())
FlagsError(flags, is_move, capture, mate, chk, own_check) ==
    IF is_move /\ capture /\ ~is_flag_set(flags, CAPTURE) THEN "NeedCaptureSpecifier"
    ELSE IF is_move /\ ~capture /\ is_flag_set(flags, CAPTURE) THEN "RemoveCaptureSpecifier"
    ELSE IF mate /\ is_flag_set(flags, CHECKMATE) THEN "None"
    ELSE IF mate THEN "NeedCheckmateSpecifier"
    ELSE IF is_flag_set(flags, CHECKMATE) THEN "RemoveCheckmateSpecifier"
    ELSE IF chk /\ ~is_flag_set(flags, CHECK) THEN "NeedCheckSpecifier"
    ELSE IF ~chk /\ is_flag_set(flags, CHECK) THEN "RemoveCheckSpecifier"
    ELSE IF own_check THEN "KingInCheck"
    ELSE "None"

enforce_flags_err(b, turn) ==
    FlagsError(turn.flags, turn.kind = "Move",
               turn.kind = "Move" /\ is_some(b, turn.dst),
               causes_checkmate(b, turn),
               causes_check(b, turn, ~b.is_white),
               causes_check(b, turn, b.is_white))

\* a variant that never marks a check
gen_flags_without_check(b, turn) ==
    LET f1 == IF causes_checkmate(b, turn) THEN CHECKMATE ELSE 0
        f2 == IF turn.kind = "Move" /\ is_some(b, turn.dst) THEN CAPTURE ELSE 0
    IN  [turn EXCEPT !.flags = f1 + f2]

gen_flags(b, turn) ==
    LET f1 == IF causes_checkmate(b, turn) THEN CHECKMATE
              ELSE IF causes_check(b, turn, ~b.is_white) THEN CHECK
              ELSE 0
        f2 == IF turn.kind = "Move" /\ is_some(b, turn.dst) THEN CAPTURE ELSE 0
    IN  [turn EXCEPT !.flags = f1 + f2]


----------------------------------------------------------------------------
(* ChessBoard::gen_fen and the position key of make_move *)

\* Piece's alternate Display: the piece letter, lower case for black
PieceChar(pc) ==
    LET u == CASE pc.piece = "King" -> "K" [] pc.piece = "Queen" -> "Q"
               [] pc.piece = "Rook" -> "R" [] pc.piece = "Bishop" -> "B"
               [] pc.piece = "Knight" -> "N" [] pc.piece = "Pawn" -> "P"
        l == CASE pc.piece = "King" -> "k" [] pc.piece = "Queen" -> "q"
               [] pc.piece = "Rook" -> "r" [] pc.piece = "Bishop" -> "b"
               [] pc.piece = "Knight" -> "n" [] pc.piece = "Pawn" -> "p"
    IN  IF pc.is_white THEN u ELSE l

Digits == <<"1", "2", "3", "4", "5", "6", "7", "8", "9">>

is_ascii_digit(c) == \E i \in 1..9 : Digits[i] = c

\* *last_char += 1 on a digit character
NextDigit(c) == Digits[(CHOOSE i \in 1..8 : Digits[i] = c) + 1]

\* the fold of gen_fen: a run of empty squares becomes one digit
RECURSIVE FoldLine(_, _)
FoldLine(full_line, rest) ==
    IF rest = <<>> THEN full_line
    ELSE LET c == Head(rest)
             n == Len(full_line)
         IN  IF is_ascii_digit(c) /\ n > 0 /\ is_ascii_digit(full_line[n])
             THEN FoldLine([full_line EXCEPT ![n] = NextDigit(full_line[n])], Tail(rest))
             ELSE FoldLine(Append(full_line, c), Tail(rest))

\* one rank of the placement field; r is the Line (0..7) of the rank
FenRank(b, r) ==
    FoldLine(<<>>, [i \in 1..8 |->
        IF is_some(b, 8 * r + (i - 1)) THEN PieceChar(b.piece_locs[8 * r + (i - 1)])
        ELSE "1"])

\* ranks 8 down to 1 joined by '/'
RECURSIVE FenPlacement(_, _)
FenPlacement(b, r) ==
    IF r = 0 THEN FenRank(b, 0)
    ELSE FenRank(b, r) \o <<"/">> \o FenPlacement(b, r - 1)

FenCastling(c) ==
    LET str == (IF c.white_kingside THEN <<"K">> ELSE <<>>)
               \o (IF c.white_queenside THEN <<"Q">> ELSE <<>>)
               \o (IF c.black_kingside THEN <<"k">> ELSE <<>>)
               \o (IF c.black_queenside THEN <<"q">> ELSE <<>>)
    IN  IF str = <<>> THEN <<"-">> ELSE str

FileChars == <<"a", "b", "c", "d", "e", "f", "g", "h">>

\* Square's Display
SquareStr(sq) == <<FileChars[FileOf(sq) + 1], Digits[RankOf(sq) + 1]>>

DecDigits == <<"0", "1", "2", "3", "4", "5", "6", "7", "8", "9">>

RECURSIVE to_string(_)
\* Display of u8 and u16: the decimal digits
to_string(n) ==
    IF n < 10 THEN <<DecDigits[n + 1]>>
    ELSE to_string(n \div 10) \o <<DecDigits[(n % 10) + 1]>>

\* the six space-separated fields of the FEN string, in order
gen_fen(b) ==
    <<FenPlacement(b, 7),
      IF b.is_white THEN <<"w">> ELSE <<"b">>,
      FenCastling(b.castling),
      IF b.en_passant # NoSq THEN SquareStr(b.en_passant) ELSE <<"-">>,
      to_string(b.half_move_clock),
      to_string(b.full_move_number)>>

\* split_whitespace().take(4): the position key without the two counters
trimmed_fen(b) == SubSeq(gen_fen(b), 1, 4)

\* Counter::add
CounterAdd(c, key) ==
    IF key \in DOMAIN c THEN [c EXCEPT ![key] = @ + 1]
    ELSE [k \in DOMAIN c \cup {key} |-> IF k = key THEN 1 ELSE c[k]]

\* Counter::get
CounterGet(c, key) == IF key \in DOMAIN c THEN c[key] ELSE 0

----------------------------------------------------------------------------
(* FromStr for ChessBoard.  A FEN string is the sequence of its fields, as   *)
(* split_whitespace yields them; a field is a sequence of characters.        *)

\* char::to_digit(10), -1 for None
to_digit(c) ==
    IF \E d \in 0..9 : DecDigits[d + 1] = c
    THEN CHOOSE d \in 0..9 : DecDigits[d + 1] = c
    ELSE -1

U8Max == 255

U16Max == 65535

RECURSIVE ParseDigits(_, _, _)
\* the digits of str::parse for an unsigned type, -1 for an error
ParseDigits(str, acc, max) ==
    IF str = <<>> THEN acc
    ELSE IF to_digit(Head(str)) < 0 \/ 10 * acc + to_digit(Head(str)) > max THEN -1
    ELSE ParseDigits(Tail(str), 10 * acc + to_digit(Head(str)), max)

\* str::parse::<u8> and str::parse::<u16>, -1 for an error
parse_uint(str, max) ==
    IF str = <<>> THEN -1
    ELSE IF Head(str) = "+"
    THEN (IF Len(str) = 1 THEN -1 ELSE ParseDigits(Tail(str), 0, max))
    ELSE ParseDigits(str, 0, max)

RECURSIVE SplitFrom(_, _, _)
\* str::split(sep): the pieces of str after cur has been read
SplitFrom(str, sep, cur) ==
    IF str = <<>> THEN <<cur>>
    ELSE IF Head(str) = sep THEN <<cur>> \o SplitFrom(Tail(str), sep, <<>>)
    ELSE SplitFrom(Tail(str), sep, Append(cur, Head(str)))

split(str, sep) == SplitFrom(str, sep, <<>>)

\* Square::iterator: the squares from a8 to h8, then a7 to h7, down to h1
SquareIterator == [i \in 1..64 |-> Sq((i - 1) % 8, 8 - ((i - 1) \div 8))]

\* the piece of a character of the placement field: to_ascii_uppercase,
\* TryFrom<char> for PieceType, is_ascii_uppercase; Empty for an error
PieceOfChar(c) ==
    CASE c = "K" -> Piece("King", TRUE)     [] c = "k" -> Piece("King", FALSE)
      [] c = "Q" -> Piece("Queen", TRUE)    [] c = "q" -> Piece("Queen", FALSE)
      [] c = "R" -> Piece("Rook", TRUE)     [] c = "r" -> Piece("Rook", FALSE)
      [] c = "B" -> Piece("Bishop", TRUE)   [] c = "b" -> Piece("Bishop", FALSE)
      [] c = "N" -> Piece("Knight", TRUE)   [] c = "n" -> Piece("Knight", FALSE)
      [] c = "P" -> Piece("Pawn", TRUE)     [] c = "p" -> Piece("Pawn", FALSE)
      [] OTHER -> Empty

\* the parser of the placement field: next indexes board_squares (65 when it
\* is exhausted), count is the count of the rank, err is "None" or the error
PlacementStart ==
    [next |-> 1, count |-> 0, locs |-> [sq \in Squares |-> Empty], err |-> "None"]

\* one character of a rank
ParseChar(st, c) ==
    IF to_digit(c) >= 0
    THEN [st EXCEPT !.count = @ + to_digit(c),
                    !.next = IF @ + to_digit(c) > 65 THEN 65 ELSE @ + to_digit(c)]
    ELSE IF st.next > 64 THEN [st EXCEPT !.err = "Too many locations on the board"]
    ELSE IF PieceOfChar(c) = Empty THEN [st EXCEPT !.err = "Invalid character in board"]
    ELSE [st EXCEPT !.count = @ + 1, !.next = @ + 1,
                    !.locs = insert(@, SquareIterator[st.next], PieceOfChar(c))]

RECURSIVE ParseRank(_, _)
\* the characters of one rank, then the test of its count
ParseRank(st, chars) ==
    IF st.err # "None" THEN st
    ELSE IF chars = <<>>
    THEN (IF st.count # 8 THEN [st EXCEPT !.err = "Invalid number of pieces on a line"]
          ELSE st)
    ELSE ParseRank(ParseChar(st, Head(chars)), Tail(chars))

RECURSIVE ParseRanks(_, _)
\* for rank in board.split('/')
ParseRanks(st, ranks) ==
    IF st.err # "None" \/ ranks = <<>> THEN st
    ELSE ParseRanks(ParseRank([st EXCEPT !.count = 0], Head(ranks)), Tail(ranks))

NoCastlingRights ==
    [white_kingside |-> FALSE, white_queenside |-> FALSE,
     black_kingside |-> FALSE, black_queenside |-> FALSE]

\* full_castling, and the right each of its characters stands for
FullCastling == <<"K", "Q", "k", "q">>

CastlingTargets ==
    <<"white_kingside", "white_queenside", "black_kingside", "black_queenside">>

RECURSIVE ParseCastling(_, _, _, _, _)
\* the loop over the castling field: i indexes the input, t the test
\* characters (5 when they are exhausted), passed is passed_chars
ParseCastling(input, i, t, passed, castling) ==
    IF t > 4
    THEN (IF i > Len(input) THEN Ok(castling)
          ELSE Err("Additional characters specified after q which is the end"))
    ELSE IF i <= Len(input) /\ input[i] = FullCastling[t]
    THEN ParseCastling(input, i + 1, t + 1, passed \cup {FullCastling[t]},
                       [castling EXCEPT ![CastlingTargets[t]] = TRUE])
    ELSE IF i > Len(input) THEN Ok(castling)
    ELSE IF input[i] = "-"
    THEN (IF i + 1 <= Len(input) THEN Err("Additional characters specified after -")
          ELSE Ok(castling))
    ELSE IF input[i] \notin {"K", "Q", "k", "q"}
    THEN Err("Invalid characters in castling input")
    ELSE IF input[i] \in passed THEN Err("Out of order castling")
    ELSE ParseCastling(input, i, t + 1, passed \cup {FullCastling[t]}, castling)

\* FromStr for Square on a field of two characters, NoSq for an error
ParseSquare(str) ==
    IF /\ \E f \in 1..8 : FileChars[f] = str[1]
       /\ \E r \in 1..8 : Digits[r] = str[2]
    THEN Sq((CHOOSE f \in 1..8 : FileChars[f] = str[1]) - 1,
            CHOOSE r \in 1..8 : Digits[r] = str[2])
    ELSE NoSq

\* an en-passant field whose square is read and then dropped
ParseEnPassantDropsTarget(str) ==
    [ok |-> str = <<"-">> \/ (Len(str) = 2 /\ ParseSquare(str) # NoSq), val |-> NoSq]

\* the en-passant field: [ok, val], val the target or NoSq for "-"
ParseEnPassant(str) ==
    IF str = <<"-">> THEN [ok |-> TRUE, val |-> NoSq]
    ELSE IF Len(str) = 2 THEN [ok |-> ParseSquare(str) # NoSq, val |-> ParseSquare(str)]
    ELSE [ok |-> FALSE, val |-> NoSq]

\* the board or the first error, from the parsed fields in the order of the code
BoardOfFields(placement, player, castling, en_passant, half_move_clock, turn_number) ==
    IF placement.err # "None" THEN Err(placement.err)
    ELSE IF player \notin {<<"w">>, <<"b">>} THEN Err("Invalid player specified")
    ELSE IF ~castling.ok THEN castling
    ELSE IF ~en_passant.ok THEN Err("En passant was not a square")
    ELSE IF half_move_clock < 0 THEN Err("Half move clock was not a number")
    ELSE IF turn_number < 0 THEN Err("Full move number was not a number")
    ELSE Ok([piece_locs |-> placement.locs,
             is_white |-> player = <<"w">>,
             castling |-> castling.val,
             en_passant |-> en_passant.val,
             half_move_clock |-> half_move_clock,
             full_move_number |-> turn_number])

\* the error for a missing field
MissingField ==
    <<"Couldn't find the player information",
      "Couldn't find the castling information",
      "Couldn't find en passant information",
      "Couldn't find half move clock information",
      "Couldn't find the turn number information">>

from_str(fields) ==
    IF fields = <<>> THEN Err("Couldn't find the board information")
    ELSE IF Len(fields) < 6 THEN Err(MissingField[Len(fields)])
    ELSE IF Len(fields) > 6 THEN Err("Additional fields specified")
    ELSE BoardOfFields(ParseRanks(PlacementStart, split(fields[1], "/")),
                       fields[2],
                       ParseCastling(fields[3], 1, 1, {}, NoCastlingRights),
                       ParseEnPassant(fields[4]),
                       parse_uint(fields[5], U8Max),
                       parse_uint(fields[6], U16Max))

----------------------------------------------------------------------------
(* Notation: Display for Turn (turn.rs) and parse_move (parser.rs).  A       *)
(* string is the sequence of its characters.                                 *)

\* Display for PieceType
PieceLetter(p) ==
    CASE p = "King" -> "K" [] p = "Queen" -> "Q" [] p = "Rook" -> "R"
      [] p = "Bishop" -> "B" [] p = "Knight" -> "N" [] p = "Pawn" -> "P"

\* Display for Line
LineStr(line) ==
    IF is_file(line) THEN <<FileChars[line - 8 + 1]>> ELSE <<Digits[line + 1]>>

\* Display for Source, and the empty string for no source
SourceStr(src) ==
    IF src.kind = "Line" THEN LineStr(src.val)
    ELSE IF src.kind = "Square" THEN SquareStr(src.val)
    ELSE <<>>

check_or_checkmate(flags) ==
    IF is_flag_set(flags, CHECKMATE) THEN <<"#">>
    ELSE IF is_flag_set(flags, CHECK) THEN <<"+">>
    ELSE <<>>

\* Display for Turn
TurnStr(turn) ==
    IF turn.kind = "Castling"
    THEN (IF turn.castling = "Long" THEN <<"0", "-", "0", "-", "0">>
          ELSE <<"0", "-", "0">>) \o check_or_checkmate(turn.flags)
    ELSE (IF turn.piece = "Pawn" THEN <<>> ELSE <<PieceLetter(turn.piece)>>)
         \o SourceStr(turn.src)
         \o (IF is_flag_set(turn.flags, CAPTURE) THEN <<"x">> ELSE <<>>)
         \o SquareStr(turn.dst)
         \o (IF turn.promotion # "None" THEN <<"=", PieceLetter(turn.promotion)>>
             ELSE <<>>)
         \o check_or_checkmate(turn.flags)

\* the characters parse_move lets through
MoveChars ==
    {"a", "b", "c", "d", "e", "f", "g", "h", "1", "2", "3", "4", "5", "6", "7", "8",
     "+", "#", "x", "=", "-", "O", "0", "K", "Q", "R", "B", "N"}

\* char::is_uppercase on those characters
UppercaseChars == {"O", "K", "Q", "R", "B", "N"}

SquareChars ==
    {"a", "b", "c", "d", "e", "f", "g", "h", "1", "2", "3", "4", "5", "6", "7", "8"}

\* str::contains for a character and for a string
contains(str, c) == \E i \in 1..Len(str) : str[i] = c

contains_str(str, pat) ==
    \E i \in 1..(Len(str) - Len(pat) + 1) : SubSeq(str, i, i + Len(pat) - 1) = pat

\* chars().filter(..) for membership in a set of characters
filter(str, chars) == SelectSeq(str, LAMBDA c : c \in chars)

\* "None" when the input is no castling
parse_castling(turn) ==
    IF contains_str(turn, <<"0", "-", "0", "-", "0">>)
       \/ contains_str(turn, <<"O", "-", "O", "-", "O">>) THEN "Long"
    ELSE IF contains_str(turn, <<"0", "-", "0">>)
            \/ contains_str(turn, <<"O", "-", "O">>) THEN "Short"
    ELSE "None"

get_flags(turn) ==
    (IF contains(turn, "x") THEN CAPTURE ELSE 0)
    + (IF contains(turn, "#") THEN CHECKMATE
       ELSE IF contains(turn, "+") THEN CHECK
       ELSE 0)

\* TryFrom<char> for PieceType, "None" for an error
PieceOfLetter(c) ==
    CASE c = "K" -> "King" [] c = "Q" -> "Queen" [] c = "R" -> "Rook"
      [] c = "B" -> "Bishop" [] c = "N" -> "Knight" [] c = "P" -> "Pawn"
      [] OTHER -> "None"

\* the piece of the uppercase characters, P when there is none
PieceOfOptions(piece_options) ==
    IF Len(piece_options) > 1 THEN Err("ExcessPieces")
    ELSE IF PieceOfLetter(IF piece_options = <<>> THEN "P" ELSE piece_options[1]) = "None"
    THEN Err("ConversionError")
    ELSE Ok(PieceOfLetter(IF piece_options = <<>> THEN "P" ELSE piece_options[1]))

get_piece(turn) == PieceOfOptions(filter(turn, UppercaseChars))

\* Line::new on a square character
LineNew(c) ==
    IF \E f \in 1..8 : FileChars[f] = c
    THEN 8 + (CHOOSE f \in 1..8 : FileChars[f] = c) - 1
    ELSE (CHOOSE r \in 1..8 : Digits[r] = c) - 1

\* the destination and the source of the square characters: [dst, src]
SquaresOf(square_chars) ==
    IF Len(square_chars) <= 1 THEN Err("NeedSquare")
    ELSE IF Len(square_chars) > 4 THEN Err("ExcessSquares")
    ELSE IF ParseSquare(SubSeq(square_chars, Len(square_chars) - 1, Len(square_chars))) = NoSq
    THEN Err("ConversionError")
    ELSE IF Len(square_chars) = 4 /\ ParseSquare(SubSeq(square_chars, 1, 2)) = NoSq
    THEN Err("ConversionError")
    ELSE Ok([dst |-> ParseSquare(SubSeq(square_chars, Len(square_chars) - 1,
                                        Len(square_chars))),
             src |-> IF Len(square_chars) = 2 THEN SrcNone
                     ELSE IF Len(square_chars) = 3 THEN SrcLine(LineNew(square_chars[1]))
                     ELSE SrcSquare(ParseSquare(SubSeq(square_chars, 1, 2)))])

get_squares(turn) == SquaresOf(filter(turn, SquareChars))

verify_move(move) ==
    IF move.promotion # "None"
    THEN (IF move.promotion \in {"King", "Pawn"} THEN Err("PromotionError::Invalid")
          ELSE IF RankOf(move.dst) \in {0, 7} THEN Ok(move)
          ELSE Err("PromotionError::Cant"))
    ELSE IF move.piece = "Pawn" /\ RankOf(move.dst) \in {0, 7}
    THEN Err("PromotionError::Must")
    ELSE Ok(move)

\* the move of the piece and the squares read from the input
MoveOfParts(input, piece, squares) ==
    IF ~piece.ok THEN piece
    ELSE IF ~squares.ok THEN squares
    ELSE verify_move(Move(IF contains(input, "=") THEN "Pawn" ELSE piece.val,
                          squares.val.dst, get_flags(input), squares.val.src,
                          IF contains(input, "=") THEN piece.val ELSE "None"))

parse_move(input) ==
    IF \E i \in 1..Len(input) : input[i] \notin MoveChars THEN Err("InvalidChars")
    ELSE IF parse_castling(input) # "None"
    THEN Ok(Castling(parse_castling(input), get_flags(input)))
    ELSE MoveOfParts(input, get_piece(input), get_squares(input))

----------------------------------------------------------------------------
(* ChessGame: lib.rs *)

Init ==
    /\ board = ChessBoardDefault
    /\ game_state = Continue
    /\ position_counter = EmptyCounter
    /\ game_hist = <<>>
    /\ enforce_flags \in BOOLEAN
    /\ panicked = FALSE
    /\ fen = <<>>
    /\ parsed = from_str(<<>>)

\* the flag step of make_move on a validated turn
Flagged(b, enforce, turn, e) ==
    IF enforce
    THEN (IF e = "None" THEN [ok |-> TRUE, val |-> turn, err |-> "None"]
          ELSE [ok |-> FALSE, val |-> turn, err |-> e])
    ELSE [ok |-> TRUE, val |-> gen_flags(b, turn), err |-> "None"]

FlagStep(b, enforce, r) ==
    IF ~r.ok THEN r
    ELSE Flagged(b, enforce, r.val, IF enforce THEN enforce_flags_err(b, r.val) ELSE "None")

\* the turn make_move applies, or the error it returns
MakeMoveResult(b, enforce, turn) == FlagStep(b, enforce, validate_and_complete_turn(b, turn))

\* a variant that counts the position before it looks at the result
PlayedCountsRejected(r) ==
    IF r.ok
    THEN /\ position_counter' = CounterAdd(position_counter, trimmed_fen(board))
         /\ board' = update_board(board, r.val)
         /\ game_hist' = Append(game_hist, r.val)
         /\ game_state' = check_gamestate(board', position_counter')
         /\ UNCHANGED <<enforce_flags, panicked, fen, parsed>>
    ELSE /\ position_counter' = CounterAdd(position_counter, trimmed_fen(board))
         /\ UNCHANGED <<board, game_hist, game_state, enforce_flags, panicked,
                        fen, parsed>>

\* the rest of make_move once the turn is validated and flagged
Played(r) ==
    IF r.ok
    THEN /\ position_counter' = CounterAdd(position_counter, trimmed_fen(board))
         /\ board' = update_board(board, r.val)
         /\ game_hist' = Append(game_hist, r.val)
         /\ game_state' = check_gamestate(board', position_counter')
         /\ UNCHANGED <<enforce_flags, panicked, fen, parsed>>
    ELSE UNCHANGED vars

make_move(turn) == Played(MakeMoveResult(board, enforce_flags, turn))

\* the game object as a value: the fields make_move writes, and whether an
\* unwrap of an Err has panicked
Game(b, counter, hist, state, panic) ==
    [board |-> b, position_counter |-> counter, game_hist |-> hist,
     game_state |-> state, panicked |-> panic]

\* make_move(&turn).unwrap() on the game g, given the validated and flagged
\* turn r: the game after the move, or the game as it was and a panic
Unwrapped(g, r, new_board, new_counter) ==
    IF r.ok
    THEN Game(new_board, new_counter, Append(g.game_hist, r.val),
              check_gamestate(new_board, new_counter), FALSE)
    ELSE [g EXCEPT !.panicked = TRUE]

MakeMoveUnwrap(g, r) ==
    Unwrapped(g, r, update_board(g.board, r.val),
              CounterAdd(g.position_counter, trimmed_fen(g.board)))

RECURSIVE Replay(_, _, _)
\* the loop of undo_move: make_move(&turn).unwrap() for each turn in history
Replay(g, enforce, history) ==
    IF history = <<>> \/ g.panicked THEN g
    ELSE Replay(MakeMoveUnwrap(g, MakeMoveResult(g.board, enforce, Head(history))),
                enforce, Tail(history))

\* game_hist.pop() and the clone of what is left
Popped(hist) == SubSeq(hist, 1, Len(hist) - 1)

\* the fields as undo_move leaves them
Undone(g) ==
    /\ board' = g.board
    /\ position_counter' = g.position_counter
    /\ game_hist' = g.game_hist
    /\ game_state' = g.game_state
    /\ panicked' = g.panicked
    /\ UNCHANGED <<enforce_flags, fen, parsed>>

undo_move ==
    Undone(Replay(Game(ChessBoardDefault, EmptyCounter, <<>>, game_state, FALSE),
                  enforce_flags, Popped(game_hist)))

----------------------------------------------------------------------------
(* The players: the turns typed at the prompt, drawn from a book of games *)

FileIdx(c) == CHOOSE i \in 0..7 : FileChars[i + 1] = c

At(f, r) == Sq(FileIdx(f), r)

\* a turn as typed: piece, destination, flags, no source hint
T(p, f, r, flags) == Move(p, At(f, r), flags, SrcNone, "None")

\* a turn as typed with a file hint
TF(p, hint, f, r, flags) == Move(p, At(f, r), flags, SrcLine(8 + FileIdx(hint)), "None")

OO == Castling("Short", 0)

OOO == Castling("Long", 0)

\* a pinned knight: 1.e4 d6 2.Nf3 Nc6 3.Bb5 e5 4.O-O, then Nd4, Nge7 or Ne7
PinGame ==
    <<T("Pawn", "e", 4, 0), T("Pawn", "d", 6, 0), T("Knight", "f", 3, 0),
      T("Knight", "c", 6, 0), T("Bishop", "b", 5, 0), T("Pawn", "e", 5, 0), OO>>

\* en passant: 1.e4 a6 2.e5 d5 3.exd6 cxd6 4.Nf3
EnPassantGame ==
    <<T("Pawn", "e", 4, 0), T("Pawn", "a", 6, 0), T("Pawn", "e", 5, 0),
      T("Pawn", "d", 5, 0), TF("Pawn", "e", "d", 6, 0),
      TF("Pawn", "c", "d", 6, CAPTURE), T("Knight", "f", 3, 0)>>

\* the knights go out and back twice
RepetitionGame ==
    <<T("Knight", "f", 3, 0), T("Knight", "f", 6, 0), T("Knight", "g", 1, 0),
      T("Knight", "g", 8, 0), T("Knight", "f", 3, 0), T("Knight", "f", 6, 0),
      T("Knight", "g", 1, 0), T("Knight", "g", 8, 0), T("Knight", "f", 3, 0),
      T("Knight", "f", 6, 0)>>

\* 1.f3 e5 2.g4 Qh4#, and a move of the mated side
FoolsMate ==
    <<T("Pawn", "f", 3, 0), T("Pawn", "e", 5, 0), T("Pawn", "g", 4, 0),
      T("Queen", "h", 4, CHECKMATE), T("Pawn", "a", 3, 0)>>

\* 1.e4 e5 2.Bc4 Nc6 3.Qh5 Nf6 4.Qxf7#
ScholarsMate ==
    <<T("Pawn", "e", 4, 0), T("Pawn", "e", 5, 0), T("Bishop", "c", 4, 0),
      T("Knight", "c", 6, 0), T("Queen", "h", 5, 0), T("Knight", "f", 6, 0),
      T("Queen", "f", 7, CAPTURE + CHECKMATE)>>

\* white answers a check with a mate: 1.e4 e5 2.Bc4 Nc6 3.Qh5 Nb4 4.a3 Nd3+
\* 5.Qxf7#
MateOutOfCheck ==
    <<T("Pawn", "e", 4, 0), T("Pawn", "e", 5, 0), T("Bishop", "c", 4, 0),
      T("Knight", "c", 6, 0), T("Queen", "h", 5, 0), T("Knight", "b", 4, 0),
      T("Pawn", "a", 3, 0), T("Knight", "d", 3, CHECK),
      T("Queen", "f", 7, CAPTURE + CHECKMATE)>>

\* the en-passant capture typed as a capture: 1.e4 a6 2.e5 d5 3.exd6
EnPassantTyped ==
    <<T("Pawn", "e", 4, 0), T("Pawn", "a", 6, 0), T("Pawn", "e", 5, 0),
      T("Pawn", "d", 5, 0), TF("Pawn", "e", "d", 6, CAPTURE)>>

\* 1.e4 d5 2.Bb5+ and a reply that ignores the check
IgnoredCheck ==
    <<T("Pawn", "e", 4, 0), T("Pawn", "d", 5, 0), T("Bishop", "b", 5, CHECK),
      T("Pawn", "a", 6, 0), T("Bishop", "e", 8, CAPTURE)>>

\* both sides castle short: 1.e4 e5 2.Nf3 Nf6 3.Bc4 Bc5 4.O-O O-O 5.Re1 Re8 6.Kh1
ShortCastles ==
    <<T("Pawn", "e", 4, 0), T("Pawn", "e", 5, 0), T("Knight", "f", 3, 0),
      T("Knight", "f", 6, 0), T("Bishop", "c", 4, 0), T("Bishop", "c", 5, 0),
      OO, OO, T("Rook", "e", 1, 0), T("Rook", "e", 8, 0), T("King", "h", 1, 0)>>

\* both sides castle long: 1.d4 d5 2.Nc3 Nc6 3.Bf4 Bf5 4.Qd2 Qd7 5.O-O-O O-O-O
LongCastles ==
    <<T("Pawn", "d", 4, 0), T("Pawn", "d", 5, 0), T("Knight", "c", 3, 0),
      T("Knight", "c", 6, 0), T("Bishop", "f", 4, 0), T("Bishop", "f", 5, 0),
      T("Queen", "d", 2, 0), T("Queen", "d", 7, 0), OOO, OOO>>

\* white clears its queenside with the c-pawn gone from c2, so the bishop on f5
\* looks at b1: 1.d4 d5 2.c4 Bf5 3.Nc3 e6 4.Bf4 Nf6 5.Qd2 Nc6 6.O-O-O
LongCastleBesideRook ==
    <<T("Pawn", "d", 4, 0), T("Pawn", "d", 5, 0), T("Pawn", "c", 4, 0),
      T("Bishop", "f", 5, 0), T("Knight", "c", 3, 0), T("Pawn", "e", 6, 0),
      T("Bishop", "f", 4, 0), T("Knight", "f", 6, 0), T("Queen", "d", 2, 0),
      T("Knight", "c", 6, 0), OOO>>

\* the shortest stalemate: 1.e3 a5 2.Qh5 Ra6 3.Qxa5 h5 4.h4 Rah6 5.Qxc7 f6
\* 6.Qxd7+ Kf7 7.Qxb7 Qd3 8.Qxb8 Qh7 9.Qxc8 Kg6 10.Qe6
StalemateGame ==
    <<T("Pawn", "e", 3, 0), T("Pawn", "a", 5, 0), T("Queen", "h", 5, 0),
      T("Rook", "a", 6, 0), T("Queen", "a", 5, CAPTURE), T("Pawn", "h", 5, 0),
      T("Pawn", "h", 4, 0), TF("Rook", "a", "h", 6, 0), T("Queen", "c", 7, CAPTURE),
      T("Pawn", "f", 6, 0), T("Queen", "d", 7, CAPTURE + CHECK), T("King", "f", 7, 0),
      T("Queen", "b", 7, CAPTURE), T("Queen", "d", 3, 0), T("Queen", "b", 8, CAPTURE),
      T("Queen", "h", 7, 0), T("Queen", "c", 8, CAPTURE), T("King", "g", 6, 0),
      T("Queen", "e", 6, 0)>>

\* a rook is taken on its corner: 1.b3 g6 2.Bb2 Nc6 3.Bxh8 Nf6 4.Bxf6
RookCapture ==
    <<T("Pawn", "b", 3, 0), T("Pawn", "g", 6, 0), T("Bishop", "b", 2, 0),
      T("Knight", "c", 6, 0), T("Bishop", "h", 8, CAPTURE), T("Knight", "f", 6, 0),
      T("Bishop", "f", 6, CAPTURE), OO>>

\* the rooks step out and back: 1.Nf3 Nf6 2.Rg1 Rg8 3.Rh1 Rh8 4.Rg1 Rg8 5.Rh1
RookShuffle ==
    <<T("Knight", "f", 3, 0), T("Knight", "f", 6, 0), T("Rook", "g", 1, 0),
      T("Rook", "g", 8, 0), T("Rook", "h", 1, 0), T("Rook", "h", 8, 0),
      T("Rook", "g", 1, 0), T("Rook", "g", 8, 0), T("Rook", "h", 1, 0), OO>>

\* the kings step out and back: 1.e4 e5 2.Ke2 Ke7 3.Ke1 Ke8 4.Ke2 Ke7
KingShuffle ==
    <<T("Pawn", "e", 4, 0), T("Pawn", "e", 5, 0), T("King", "e", 2, 0),
      T("King", "e", 7, 0), T("King", "e", 1, 0), T("King", "e", 8, 0),
      T("King", "e", 2, 0), T("King", "e", 7, 0)>>

\* a pawn takes its way to the corner and promotes:
\* 1.a4 b5 2.axb5 a6 3.bxa6 Bb7 4.axb7 Nc6 5.bxa8=Q
PromotionGame ==
    <<T("Pawn", "a", 4, 0), T("Pawn", "b", 5, 0), TF("Pawn", "a", "b", 5, CAPTURE),
      T("Pawn", "a", 6, 0), TF("Pawn", "b", "a", 6, CAPTURE), T("Bishop", "b", 7, 0),
      TF("Pawn", "a", "b", 7, CAPTURE), T("Knight", "c", 6, 0),
      Move("Pawn", At("a", 8), CAPTURE, SrcLine(8 + FileIdx("b")), "Queen")>>

\* a hundred plies in which only the king's knights move, no position twice
LongGame ==
    <<T("Knight", "h", 3, 0), T("Knight", "f", 6, 0), T("Knight", "f", 4, 0),
      T("Knight", "g", 4, 0), T("Knight", "h", 5, 0), T("Knight", "f", 6, 0),
      T("Knight", "g", 3, 0), T("Knight", "h", 5, 0), T("Knight", "e", 4, 0),
      T("Knight", "f", 6, 0), T("Knight", "g", 5, 0), T("Knight", "e", 4, 0),
      T("Knight", "h", 3, 0), T("Knight", "g", 3, 0), T("Knight", "g", 1, 0),
      T("Knight", "f", 5, 0), T("Knight", "h", 3, 0), T("Knight", "h", 4, 0),
      T("Knight", "g", 1, 0), T("Knight", "g", 6, 0), T("Knight", "h", 3, 0),
      T("Knight", "e", 5, 0), T("Knight", "g", 5, 0), T("Knight", "g", 6, 0),
      T("Knight", "e", 4, 0), T("Knight", "e", 5, 0), T("Knight", "g", 3, 0),
      T("Knight", "g", 6, 0), T("Knight", "h", 5, 0), T("Knight", "e", 5, 0),
      T("Knight", "f", 4, 0), T("Knight", "c", 4, 0), T("Knight", "e", 6, 0),
      T("Knight", "d", 6, 0), T("Knight", "g", 5, 0), T("Knight", "c", 4, 0),
      T("Knight", "f", 3, 0), T("Knight", "a", 3, 0), T("Knight", "g", 1, 0),
      T("Knight", "c", 4, 0), T("Knight", "h", 3, 0), T("Knight", "a", 5, 0),
      T("Knight", "g", 1, 0), T("Knight", "b", 3, 0), T("Knight", "h", 3, 0),
      T("Knight", "d", 4, 0), T("Knight", "f", 4, 0), T("Knight", "e", 6, 0),
      T("Knight", "g", 6, 0), T("Knight", "g", 5, 0), T("Knight", "f", 4, 0),
      T("Knight", "e", 4, 0), T("Knight", "h", 5, 0), T("Knight", "g", 3, 0),
      T("Knight", "f", 4, 0), T("Knight", "f", 5, 0), T("Knight", "e", 6, 0),
      T("Knight", "h", 6, 0), T("Knight", "d", 4, 0), T("Knight", "g", 8, 0),
      T("Knight", "f", 5, 0), T("Knight", "f", 6, 0), T("Knight", "h", 4, 0),
      T("Knight", "h", 5, 0), T("Knight", "f", 5, 0), T("Knight", "f", 4, 0),
      T("Knight", "d", 4, 0), T("Knight", "g", 6, 0), T("Knight", "b", 3, 0),
      T("Knight", "h", 4, 0), T("Knight", "d", 4, 0), T("Knight", "f", 5, 0),
      T("Knight", "b", 3, 0), T("Knight", "g", 3, 0), T("Knight", "a", 5, 0),
      T("Knight", "h", 5, 0), T("Knight", "c", 4, 0), T("Knight", "g", 3, 0),
      T("Knight", "e", 5, 0), T("Knight", "e", 4, 0), T("Knight", "f", 3, 0),
      T("Knight", "f", 6, 0), T("Knight", "d", 4, 0), T("Knight", "d", 5, 0),
      T("Knight", "c", 6, 0), T("Knight", "e", 3, 0), T("Knight", "b", 4, 0),
      T("Knight", "f", 5, 0), T("Knight", "a", 6, 0), T("Knight", "g", 3, 0),
      T("Knight", "c", 5, 0), T("Knight", "e", 4, 0), T("Knight", "d", 3, 0),
      T("Knight", "g", 3, 0), T("Knight", "b", 4, 0), T("Knight", "h", 5, 0),
      T("Knight", "c", 6, 0), T("Knight", "f", 6, 0), T("Knight", "b", 4, 0),
      T("Knight", "g", 4, 0)>>

\* a capture typed with the wrong file: 1.e4 d5 2.cxd5
WrongFileHint ==
    <<T("Pawn", "e", 4, 0), T("Pawn", "d", 5, 0), TF("Pawn", "c", "d", 5, CAPTURE),
      T("Queen", "d", 5, CAPTURE)>>

\* the only knight that can go there, typed with its file: 1.Ngf3
FileHintOnLoneKnight == <<TF("Knight", "g", "f", 3, 0), T("Pawn", "e", 5, 0)>>

\* no queen can go there: 1.Qh5
QueenToH5 == <<T("Queen", "h", 5, 0)>>

\* two knights on the third rank aim at d2:
\* 1.d4 d5 2.Nd2 Nf6 3.Nb3 Nc6 4.Nf3 Bf5
TwoKnights ==
    <<T("Pawn", "d", 4, 0), T("Pawn", "d", 5, 0), T("Knight", "d", 2, 0),
      T("Knight", "f", 6, 0), T("Knight", "b", 3, 0), T("Knight", "c", 6, 0),
      T("Knight", "f", 3, 0), T("Bishop", "f", 5, 0)>>

\* the ways to type the knight move to d2 after TwoKnights: Nbd2, N3d2, N1d2,
\* Nd2, Nb3d2
KnightToD2(src) == Move("Knight", At("d", 2), 0, src, "None")

\* a third rook: 1.a4 b5 2.axb5 a6 3.bxa6 Bb7 4.axb7 Nc6 5.bxa8=R h6 6.h4 g6
\* 7.Rh3 f6, and all three rooks aim at a3
ThreeRooks ==
    <<T("Pawn", "a", 4, 0), T("Pawn", "b", 5, 0), TF("Pawn", "a", "b", 5, CAPTURE),
      T("Pawn", "a", 6, 0), TF("Pawn", "b", "a", 6, CAPTURE), T("Bishop", "b", 7, 0),
      TF("Pawn", "a", "b", 7, CAPTURE), T("Knight", "c", 6, 0),
      Move("Pawn", At("a", 8), CAPTURE, SrcLine(8 + FileIdx("b")), "Rook"),
      T("Pawn", "h", 6, 0), T("Pawn", "h", 4, 0), T("Pawn", "g", 6, 0),
      T("Rook", "h", 3, 0), T("Pawn", "f", 6, 0)>>

\* the ways to type the rook move to a3 after ThreeRooks: Ra3, Raa3, Ra1a3,
\* Rb1a3
RookToA3(src) == Move("Rook", At("a", 3), 0, src, "None")

Book ==
    {PinGame \o <<T("Knight", "d", 4, 0)>>,
     PinGame \o <<TF("Knight", "g", "e", 7, 0)>>,
     PinGame \o <<T("Knight", "e", 7, 0)>>,
     EnPassantGame, RepetitionGame, FoolsMate, ScholarsMate, IgnoredCheck,
     ShortCastles, LongCastles, LongCastleBesideRook, StalemateGame, RookCapture, RookShuffle,
     KingShuffle, PromotionGame, LongGame, WrongFileHint, FileHintOnLoneKnight,
     QueenToH5, MateOutOfCheck, EnPassantTyped, <<T("Pawn", "e", 4, 0), T("Queen", "h", 4, 0)>>,
     TwoKnights \o <<KnightToD2(SrcLine(8 + FileIdx("b"))), T("Pawn", "e", 6, 0)>>,
     TwoKnights \o <<KnightToD2(SrcLine(2))>>,
     TwoKnights \o <<KnightToD2(SrcLine(0))>>,
     TwoKnights \o <<KnightToD2(SrcNone)>>,
     TwoKnights \o <<KnightToD2(SrcSquare(At("b", 3)))>>,
     ThreeRooks \o <<RookToA3(SrcSquare(At("a", 1))), T("Pawn", "e", 6, 0)>>,
     ThreeRooks \o <<RookToA3(SrcNone)>>,
     ThreeRooks \o <<RookToA3(SrcLine(8 + FileIdx("a")))>>,
     ThreeRooks \o <<RookToA3(SrcSquare(At("b", 1)))>>}

MaxPly == 100

\* the longest game the players take a move back in
MaxUndoPly == 20

\* what was typed agrees with what was recorded, up to source and flags
SameMove(a, b) ==
    /\ a.kind = b.kind
    /\ IF a.kind = "Move"
       THEN a.piece = b.piece /\ a.dst = b.dst /\ a.promotion = b.promotion
       ELSE a.castling = b.castling

Follows(line, hist) ==
    /\ Len(line) > Len(hist)
    /\ \A i \in 1..Len(hist) : SameMove(line[i], hist[i])

\* the turns the players may type next
NextInputs(book, hist) ==
    {line[Len(hist) + 1] : line \in {l \in book : Follows(l, hist)}}

\* a turn is typed and given to make_move, unless a panic has ended the process
TypeTurn ==
    \E turn \in NextInputs(Book, game_hist) :
        /\ ~panicked
        /\ Len(game_hist) < MaxPly
        /\ make_move(turn)

\* "u" is typed
TypeUndo ==
    /\ ~panicked
    /\ Len(game_hist) <= MaxUndoPly
    /\ undo_move

Next == TypeTurn \/ TypeUndo

Spec == Init /\ [][Next]_vars

----------------------------------------------------------------------------
(* The parser on its own: FEN strings handed to from_str, as str::parse     *)
(* does.  fen is the string parsed, parsed the result.                       *)

CastlingAlphabet == {"K", "Q", "k", "q", "-", "x"}

MaxCastlingLen == 4

\* the castling fields tried: every string up to the bound, and the full
\* field followed by one more character
CastlingFields ==
    UNION {[1..n -> CastlingAlphabet] : n \in 1..MaxCastlingLen}
        \cup {FullCastling \o <<c>> : c \in CastlingAlphabet}

\* the FEN of the starting position with another castling field
FenInputs == {[gen_fen(ChessBoardDefault) EXCEPT ![3] = field] : field \in CastlingFields}

\* one string is parsed in a behaviour
ParseFen ==
    \E s \in FenInputs :
        /\ fen = <<>>
        /\ fen' = s
        /\ parsed' = from_str(s)
        /\ UNCHANGED <<board, game_state, position_counter, game_hist,
                       enforce_flags, panicked>>

NextFen == ParseFen

SpecFen == Init /\ [][NextFen]_vars

----------------------------------------------------------------------------
(* check_gamestate on its own: boards of the two kings and a few more        *)
(* pieces, with a counter and a half-move clock handed in by the caller.     *)

MaxExtraPieces == 3

\* c3 and d3, of different colours, and c6, of the colour of d3
ExtraSquares == {Sq(2, 3), Sq(3, 3), Sq(2, 6)}

ExtraPieces ==
    {Piece(k, w) : k \in {"Queen", "Rook", "Bishop", "Knight", "Pawn"}, w \in BOOLEAN}

Placements ==
    {p \in [ExtraSquares -> ExtraPieces \cup {Empty}] :
        Cardinality({sq \in ExtraSquares : p[sq] # Empty}) <= MaxExtraPieces}

\* the kings on their home squares, the placement p, w to move
BoardOf(p, w, clock) ==
    [piece_locs |-> [sq \in Squares |->
                        IF sq = E1 THEN Piece("King", TRUE)
                        ELSE IF sq = E8 THEN Piece("King", FALSE)
                        ELSE IF sq \in ExtraSquares THEN p[sq]
                        ELSE Empty],
     is_white |-> w,
     castling |-> NoCastlingRights,
     en_passant |-> NoSq,
     half_move_clock |-> clock,
     full_move_number |-> 60]

\* the half-move clocks on either side of the limit
Clocks == {FiftyMoveLimit - 1, FiftyMoveLimit}

RECURSIVE CounterOf(_)
\* a counter that has been handed the key of the starting position n times
CounterOf(n) ==
    IF n = 0 THEN EmptyCounter
    ELSE CounterAdd(CounterOf(n - 1), trimmed_fen(ChessBoardDefault))

Counters == {CounterOf(n) : n \in {0, 2, 3}}

InitState ==
    /\ board \in {BoardOf(p, w, clock) : p \in Placements, w \in BOOLEAN, clock \in Clocks}
    /\ position_counter \in Counters
    /\ game_state = Continue
    /\ game_hist = <<>>
    /\ enforce_flags = FALSE
    /\ panicked = FALSE
    /\ fen = <<>>
    /\ parsed = from_str(<<>>)

\* the caller stores what check_gamestate returns
CheckGamestate ==
    /\ game_state = Continue
    /\ game_state' = check_gamestate(board, position_counter)
    /\ UNCHANGED <<board, position_counter, game_hist, enforce_flags, panicked,
                   fen, parsed>>

NextState == CheckGamestate

SpecState == InitState /\ [][NextState]_vars

----------------------------------------------------------------------------
(* Properties of the game *)

\* the turn at the end of the history
LastTurn == game_hist[Len(game_hist)]

\* the turn a step appends to the history
NewTurn == game_hist'[Len(game_hist')]

\* a step applies a turn (a rejected turn leaves the game as it was)
TurnApplied ==
    /\ Len(game_hist') = Len(game_hist) + 1
    /\ SubSeq(game_hist', 1, Len(game_hist)) = game_hist

\* C1: in every state reached by successful make_move calls, with flags
\* enforced or generated, the player who has just moved is not in check.
C1_MoverNotInCheck ==
    game_hist # <<>> => ~is_in_check(board, ~board.is_white)

\* C2: for every Move the players can type, the candidates counted by
\* validation are only pieces whose move to the destination does not leave the
\* mover's own king in check.
C2_CandidatesKeepKingSafe ==
    \A t \in NextInputs(Book, game_hist) :
        t.kind = "Move" =>
            \A loc \in potential_moves(board, t) :
                ~causes_check(board, TurnNew(loc, board.piece_locs[loc], t.dst),
                              board.is_white)

\* C3: when a pawn move lands on the board's current en-passant target, the
\* square directly behind the destination (from the capturer's side) is empty
\* in the resulting state.
C3_EnPassantRemovesPassedPawn ==
    [][(/\ TurnApplied
        /\ NewTurn.kind = "Move"
        /\ NewTurn.piece = "Pawn"
        /\ board.en_passant # NoSq
        /\ NewTurn.dst = board.en_passant)
       => board'.piece_locs[IF board.is_white THEN down(NewTurn.dst)
                            ELSE up(NewTurn.dst)] = Empty]_vars

\* a pawn's two-square advance from its starting rank, by the side to move of b
IsDoublePush(b, t) ==
    /\ t.kind = "Move"
    /\ t.piece = "Pawn"
    /\ FileOf(t.src.val) = FileOf(t.dst)
    /\ IF b.is_white THEN RankOf(t.src.val) = 1 /\ RankOf(t.dst) = 3
       ELSE RankOf(t.src.val) = 6 /\ RankOf(t.dst) = 4

\* C4: after any applied turn the en-passant target is the passed-over square
\* if the turn was a pawn's two-square advance from its starting rank, and is
\* empty after every other turn, castling included.
C4_EnPassantTargetOnlyAfterDoublePush ==
    [][TurnApplied =>
         board'.en_passant =
             IF IsDoublePush(board, NewTurn)
             THEN (NewTurn.src.val + NewTurn.dst) \div 2
             ELSE NoSq]_vars

\* C5: after any applied turn the half-move clock is 0 if the turn was a pawn
\* move or a capture, and the previous clock plus one otherwise (a quiet piece
\* move or castling).
C5_HalfMoveClock ==
    [][TurnApplied =>
         board'.half_move_clock =
             IF NewTurn.kind = "Move"
                /\ (NewTurn.piece = "Pawn" \/ is_some(board, NewTurn.dst))
             THEN 0
             ELSE board.half_move_clock + 1]_vars

\* a ply with no pawn move and no capture
Quiet(t) ==
    \/ t.kind = "Castling"
    \/ t.kind = "Move" /\ t.piece # "Pawn" /\ ~is_flag_set(t.flags, CAPTURE)

RECURSIVE QuietPlies(_)
\* the number of plies since the last pawn move or capture
QuietPlies(hist) ==
    IF hist = <<>> \/ ~Quiet(hist[Len(hist)]) THEN 0
    ELSE 1 + QuietPlies(SubSeq(hist, 1, Len(hist) - 1))

\* a termination that check_gamestate reports ahead of the named draw
EndsBefore(whys) == game_state.kind = "Win" \/ game_state.why \in whys

\* C6: once 100 plies in a row have no pawn move and no capture, and nothing
\* ends the game earlier, the game state is a draw by the fifty-move rule; and
\* that draw is never the state while fewer such plies have elapsed.
C6_FiftyMoveDraw ==
    /\ (/\ QuietPlies(game_hist) >= FiftyMoveLimit
        /\ ~EndsBefore({"Stalemate", "InsufficientMaterial", "ThreefoldRepitition"}))
       => game_state = Draw("FiftyMove")
    /\ game_state = Draw("FiftyMove") => QuietPlies(game_hist) >= FiftyMoveLimit

\* how often the position of b has occurred in the game, b's included: the
\* counter holds the position before each applied turn
Occurrences(b) == CounterGet(position_counter, trimmed_fen(b)) + 1

\* C7: the game state is a draw by threefold repetition as soon as the move
\* just made has produced the third occurrence of a position (unless mate,
\* stalemate or insufficient material is reported), and not after any earlier
\* move.
C7_ThreefoldOnThirdOccurrence ==
    /\ (/\ Occurrences(board) >= 3
        /\ ~EndsBefore({"Stalemate", "InsufficientMaterial"}))
       => game_state = Draw("ThreefoldRepitition")
    /\ game_state = Draw("ThreefoldRepitition")
       => \/ Occurrences(board) >= 3
          \/ \E k \in DOMAIN position_counter : position_counter[k] >= 3

\* the side to move of b has a generated move after which its king is safe
HasSafeMove(b) ==
    \E loc \in get_player_pieces(b, b.is_white) :
        \E dst \in gen_moves(b, loc) :
            ~is_in_check(update_board(b, TurnNew(loc, b.piece_locs[loc], dst)),
                         b.is_white)

\* C8: after every applied turn the game state is a checkmate win, for the
\* side that moved last, exactly when the side to move has no safe move and
\* its king is attacked; it is a draw by stalemate exactly when the side to
\* move has no safe move and its king is not attacked.
C8_CheckmateAndStalemate ==
    game_hist # <<>> =>
        /\ game_state = Win(~board.is_white, "Checkmate")
           <=> (~HasSafeMove(board) /\ is_in_check(board, board.is_white))
        /\ game_state.kind = "Win" => game_state = Win(~board.is_white, "Checkmate")
        /\ game_state = Draw("Stalemate")
           <=> (~HasSafeMove(board) /\ ~is_in_check(board, board.is_white))

\* a mate has been delivered and reported for the side that moved last
C8_Witness ==
    /\ game_hist # <<>>
    /\ game_state = Win(~board.is_white, "Checkmate")
    /\ is_in_check(board, board.is_white)

CastlingRightNames ==
    {"white_kingside", "white_queenside", "black_kingside", "black_queenside"}

\* C9: across every applied turn, a castling right that is false stays false.
C9_CastlingRightsMonotone ==
    [][TurnApplied =>
          \A r \in CastlingRightNames :
              ~board.castling[r] => ~board'.castling[r]]_vars

\* white's king and king's rook stand on their home squares again, a turn has
\* been applied since, and the right lost on the way has not come back
C9_Witness ==
    /\ ~board.castling.white_kingside
    /\ board.castling.white_queenside
    /\ board.piece_locs[E1] = Piece("King", TRUE)
    /\ board.piece_locs[H1] = Piece("Rook", TRUE)
    /\ board.is_white

\* the effect of castling by side w on its back rank r
CastlingEffect(w, is_long, r) ==
    /\ board.piece_locs[At("e", r)] = Piece("King", w)
    /\ board.piece_locs[At(IF is_long THEN "a" ELSE "h", r)] = Piece("Rook", w)
    /\ board'.piece_locs[At(IF is_long THEN "c" ELSE "g", r)] = Piece("King", w)
    /\ board'.piece_locs[At(IF is_long THEN "d" ELSE "f", r)] = Piece("Rook", w)
    /\ board'.piece_locs[At("e", r)] = Empty
    /\ board'.piece_locs[At(IF is_long THEN "a" ELSE "h", r)] = Empty
    /\ \A sq \in Squares :
          (RankOf(sq) # r - 1 \/ FileOf(sq) \notin
               (IF is_long THEN {0, 2, 3, 4} ELSE {4, 5, 6, 7}))
          => board'.piece_locs[sq] = board.piece_locs[sq]
    /\ \A n \in CastlingRightNames :
          board'.castling[n] =
              IF n \in (IF w THEN {"white_kingside", "white_queenside"}
                        ELSE {"black_kingside", "black_queenside"})
              THEN FALSE
              ELSE board.castling[n]

\* C10: an applied castling turn moves the mover's king and rook to their
\* castled squares on the mover's back rank, empties their original squares,
\* clears both of the mover's castling rights, and leaves every other square
\* and the opponent's rights unchanged.
C10_CastlingFrame ==
    [][(TurnApplied /\ NewTurn.kind = "Castling")
       => CastlingEffect(board.is_white, NewTurn.castling = "Long",
                         IF board.is_white THEN 1 ELSE 8)]_vars

\* black has just castled long
C10_Witness ==
    /\ game_hist # <<>>
    /\ LastTurn.kind = "Castling"
    /\ LastTurn.castling = "Long"
    /\ board.is_white
    /\ board.piece_locs[C8] = Piece("King", FALSE)
    /\ board.piece_locs[D8] = Piece("Rook", FALSE)

----------------------------------------------------------------------------
(* Properties of validation *)

\* every way to fill in the source of a move: none, a line, an exact square
AllSources ==
    {SrcNone} \cup {SrcLine(l) : l \in 0..15} \cup {SrcSquare(sq) : sq \in Squares}

\* the moves the players can type next, each with every source
TypedMoves ==
    {[t EXCEPT !.src = s] :
        t \in {i \in NextInputs(Book, game_hist) : i.kind = "Move"}, s \in AllSources}

\* the validation accepts the move and completes it with source square loc
AcceptedFrom(b, t, loc) ==
    /\ validate_and_complete_turn(b, t).ok
    /\ validate_and_complete_turn(b, t).val = [t EXCEPT !.src = SrcSquare(loc)]

\* the validation rejects the move with error e
RejectedWith(b, t, e) ==
    /\ ~validate_and_complete_turn(b, t).ok
    /\ validate_and_complete_turn(b, t).err = e

\* the source typed with a move names where loc is
SourceMatches(src, loc) ==
    \/ src.kind = "Line" /\ loc \in to_vec(src.val)
    \/ src.kind = "Square" /\ src.val = loc

\* a pawn capture typed without its file
CaptureWithoutFile(t, loc) ==
    /\ t.piece = "Pawn"
    /\ FileOf(t.dst) # FileOf(loc)
    /\ (t.src.kind = "None" \/ (t.src.kind = "Line" /\ ~is_file(t.src.val)))

\* what a move with the single candidate loc is expected to get
OneCandidateOutcome(b, t, loc) ==
    IF CaptureWithoutFile(t, loc) THEN RejectedWith(b, t, "NeedFile")
    ELSE IF t.src.kind = "None" \/ SourceMatches(t.src, loc) THEN AcceptedFrom(b, t, loc)
    ELSE ~validate_and_complete_turn(b, t).ok

TwoCandidatesOutcome(b, t, cands) ==
    IF t.src.kind # "Line" THEN RejectedWith(b, t, "NeedLine")
    ELSE IF cands \subseteq to_vec(t.src.val) THEN RejectedWith(b, t, "BothInLine")
    ELSE IF cands \cap to_vec(t.src.val) = {} THEN RejectedWith(b, t, "MissingInLine")
    ELSE \E loc \in cands \cap to_vec(t.src.val) : AcceptedFrom(b, t, loc)

\* C12: with exactly two candidates, a move is accepted only with a line on
\* which exactly one candidate stands, from that candidate's square; without
\* a line it gets NeedLine, with both on the line BothInLine, with neither
\* MissingInLine.
C12_TwoCandidates ==
    \A t \in TypedMoves :
        Cardinality(potential_moves(board, t)) = 2
            => TwoCandidatesOutcome(board, t, potential_moves(board, t))

\* two knights can go to d2, and each outcome of typing that move occurs
C12_Witness ==
    /\ potential_moves(board, KnightToD2(SrcNone)) = {At("b", 3), At("f", 3)}
    /\ KnightToD2(SrcNone) \in NextInputs(Book, game_hist)
    /\ AcceptedFrom(board, KnightToD2(SrcLine(8 + FileIdx("b"))), At("b", 3))
    /\ RejectedWith(board, KnightToD2(SrcLine(2)), "BothInLine")
    /\ RejectedWith(board, KnightToD2(SrcLine(0)), "MissingInLine")
    /\ RejectedWith(board, KnightToD2(SrcSquare(At("b", 3))), "NeedLine")

\* what a move with three or more candidates is expected to get
ManyCandidatesOutcome(b, t, cands) ==
    IF t.src.kind # "Square" THEN RejectedWith(b, t, "NeedSquare")
    ELSE IF t.src.val \in cands THEN AcceptedFrom(b, t, t.src.val)
    ELSE RejectedWith(b, t, "MissingAtSquare")

\* C13: with three or more candidates, a move is accepted only with an exact
\* square on which a candidate stands; without an exact square it gets
\* NeedSquare, with a square no candidate stands on MissingAtSquare.
C13_ManyCandidates ==
    \A t \in TypedMoves :
        Cardinality(potential_moves(board, t)) >= 3
            => ManyCandidatesOutcome(board, t, potential_moves(board, t))

\* three rooks can go to a3, and each outcome of typing that move occurs
C13_Witness ==
    /\ potential_moves(board, RookToA3(SrcNone)) = {At("a", 1), At("a", 8), At("h", 3)}
    /\ RookToA3(SrcNone) \in NextInputs(Book, game_hist)
    /\ AcceptedFrom(board, RookToA3(SrcSquare(At("a", 8))), At("a", 8))
    /\ RejectedWith(board, RookToA3(SrcLine(8 + FileIdx("a"))), "NeedSquare")
    /\ RejectedWith(board, RookToA3(SrcSquare(At("b", 1))), "MissingAtSquare")

\* C14: a move no piece of its kind and of the mover's colour can make gets
\* NoTarget whatever source is typed; from the starting position the queen
\* move to h5 gets NoTarget and the pawn move to e4 is accepted.
C14_NoCandidate ==
    /\ \A t \in TypedMoves :
          potential_moves(board, t) = {} => RejectedWith(board, t, "NoTarget")
    /\ game_hist = <<>> =>
          /\ RejectedWith(board, T("Queen", "h", 5, 0), "NoTarget")
          /\ AcceptedFrom(board, T("Pawn", "e", 4, 0), At("e", 2))

\* the pawn move to e4 has been accepted from the starting position, black
\* types the queen move to h4, and no way of typing it is accepted
C14_Witness ==
    /\ Len(game_hist) = 1
    /\ game_hist[1].dst = At("e", 4)
    /\ game_hist[1].src = SrcSquare(At("e", 2))
    /\ T("Queen", "h", 4, 0) \in NextInputs(Book, game_hist)
    /\ \A s \in AllSources :
          RejectedWith(board, Move("Queen", At("h", 4), 0, s, "None"), "NoTarget")

\* the promotions a move of the piece on loc to dst can carry
PromotionsAt(b, loc, dst) ==
    IF b.piece_locs[loc].piece = "Pawn" /\ RankOf(dst) \in {0, 7}
    THEN {"Queen", "Rook", "Bishop", "Knight"}
    ELSE {"None"}

\* the fully qualified moves of the piece on loc that are generated and leave
\* the mover's own king safe
LegalMovesFrom(b, loc) ==
    {m \in UNION {{Move(b.piece_locs[loc].piece, dst, 0, SrcSquare(loc), prom) :
                      prom \in PromotionsAt(b, loc, dst)} : dst \in gen_moves(b, loc)} :
        ~is_in_check(update_board(b, m), b.is_white)}

\* the fully qualified moves that are legal for the side to move of b
LegalMoves(b) ==
    UNION {LegalMovesFrom(b, loc) : loc \in get_player_pieces(b, b.is_white)}

\* C15: for every legal fully qualified move m of every reached position,
\* the turn get_minimum_move returns for m is accepted by the validation in
\* the same position and completed to m (same source square, destination,
\* piece kind and promotion).
C15_MinimumMoveRevalidates ==
    \A m \in LegalMoves(board) :
        /\ validate_and_complete_turn(board, get_minimum_move(board, m)).ok
        /\ validate_and_complete_turn(board, get_minimum_move(board, m)).val = m

\* the knights on b3 and f3 can both go to d2: the minimum move
\* of each knight names its file, and both moves are legal
C15_Witness ==
    /\ KnightToD2(SrcSquare(At("b", 3))) \in LegalMoves(board)
    /\ KnightToD2(SrcSquare(At("f", 3))) \in LegalMoves(board)
    /\ get_minimum_move(board, KnightToD2(SrcSquare(At("b", 3))))
          = KnightToD2(SrcLine(8 + FileIdx("b")))
    /\ get_minimum_move(board, KnightToD2(SrcSquare(At("f", 3))))
          = KnightToD2(SrcLine(8 + FileIdx("f")))

----------------------------------------------------------------------------
(* Properties of undo_move *)

RECURSIVE BoardAfter(_, _)
\* the board of a game in which the turns of hist were played from b
BoardAfter(b, hist) ==
    IF hist = <<>> THEN b
    ELSE BoardAfter(update_board(b, Head(hist)), Tail(hist))

RECURSIVE CounterAfter(_, _, _)
\* the position counter of a game in which the turns of hist were played from b
CounterAfter(c, b, hist) ==
    IF hist = <<>> THEN c
    ELSE CounterAfter(CounterAdd(c, trimmed_fen(b)), update_board(b, Head(hist)),
                      Tail(hist))

\* C16: undo_move does not panic, and leaves the history without its last
\* turn and the board and the position counter as in a fresh game in which
\* the remaining turns were played.
C16_UndoRestoresPreviousGame ==
    [][undo_move =>
         /\ ~panicked'
         /\ game_hist' = Popped(game_hist)
         /\ board' = BoardAfter(ChessBoardDefault, Popped(game_hist))
         /\ position_counter' =
                CounterAfter(EmptyCounter, ChessBoardDefault, Popped(game_hist))]_vars

----------------------------------------------------------------------------
(* Properties of the flags *)

\* the turns the players can type next that the validation accepts, completed
ValidTurns ==
    {validate_and_complete_turn(board, t).val :
        t \in {i \in NextInputs(Book, game_hist) :
                  validate_and_complete_turn(board, i).ok}}

\* C17: for every turn that leaves the mover's own king in check, and for
\* every combination of check, checkmate and capture flags on it,
\* enforce_flags returns an error.
C17_OwnCheckAlwaysRejected ==
    \A t \in ValidTurns :
        causes_check(board, t, board.is_white)
            => \A f \in 0..(CHECK + CHECKMATE + CAPTURE) :
                  enforce_flags_err(board, [t EXCEPT !.flags = f]) # "None"

\* the move takes a piece: one stands on the destination, or a pawn moves
\* diagonally onto the en-passant target behind which the passed pawn stands
IsCapture(b, t) ==
    /\ t.kind = "Move"
    /\ \/ is_some(b, t.dst)
       \/ /\ t.piece = "Pawn"
          /\ t.dst = b.en_passant
          /\ FileOf(t.src.val) # FileOf(t.dst)
          /\ b.piece_locs[IF b.is_white THEN down(t.dst) ELSE up(t.dst)]
                = Piece("Pawn", ~b.is_white)

\* C18: gen_flags sets the capture bit exactly on the moves that take a
\* piece, an en-passant capture included; enforce_flags returns
\* NeedCaptureSpecifier for such a move without the bit and
\* RemoveCaptureSpecifier for any other move with it.
C18_CaptureBit ==
    \A t \in {v \in ValidTurns : v.kind = "Move"} :
        /\ is_flag_set(gen_flags(board, t).flags, CAPTURE) <=> IsCapture(board, t)
        /\ \A f \in 0..(CHECK + CHECKMATE) :
              IF IsCapture(board, t)
              THEN enforce_flags_err(board, [t EXCEPT !.flags = f])
                       = "NeedCaptureSpecifier"
              ELSE enforce_flags_err(board, [t EXCEPT !.flags = f + CAPTURE])
                       = "RemoveCaptureSpecifier"

----------------------------------------------------------------------------
(* Properties of the FEN codec *)

\* C19: for the starting position and every board reached from it, parsing
\* the string gen_fen produces yields a board equal to it in placement, side
\* to move, castling rights, en-passant target and both counters.
C19_FenRoundTrip ==
    /\ from_str(gen_fen(board)).ok
    /\ from_str(gen_fen(board)).val = board

\* a board with an en-passant target, some castling right lost and some
\* held, written by gen_fen and read back by from_str
C19_Witness ==
    /\ board.en_passant # NoSq
    /\ gen_fen(board)[3] # FullCastling
    /\ gen_fen(board)[3] # <<"-">>
    /\ from_str(gen_fen(board)).ok
    /\ from_str(gen_fen(board)).val = board

\* the index of a character in K, Q, k, q; 0 for another character
CastlingRank(c) ==
    IF \E t \in 1..4 : FullCastling[t] = c
    THEN CHOOSE t \in 1..4 : FullCastling[t] = c
    ELSE 0

\* exactly "-", or characters of K, Q, k, q in strictly rising canonical order
IsCanonicalCastling(field) ==
    \/ field = <<"-">>
    \/ /\ field # <<>>
       /\ \A i \in 1..Len(field) : CastlingRank(field[i]) > 0
       /\ \A i, j \in 1..Len(field) :
              i < j => CastlingRank(field[i]) < CastlingRank(field[j])

\* C20: from_str accepts a FEN string, valid in every other field, only when
\* its castling field is exactly "-" or a non-empty string of K, Q, k, q with
\* each at most once and in canonical order; a field with another character,
\* a duplicate, a character out of order or a "-" mixed with the letters is
\* rejected with an error.
C20_CastlingFieldAccepted ==
    fen # <<>> => (parsed.ok <=> IsCanonicalCastling(fen[3]))

----------------------------------------------------------------------------
(* Properties of check_gamestate *)

\* the squares of the pieces of side w other than its king
Others(b, w) == {sq \in get_player_pieces(b, w) : b.piece_locs[sq].piece # "King"}

\* side w has, beside its king, exactly one piece and it is of a kind in kinds
LoneExtra(b, w, kinds) ==
    /\ Cardinality(Others(b, w)) = 1
    /\ \A sq \in Others(b, w) : b.piece_locs[sq].piece \in kinds

\* the colour of a square: a1 is dark, b1 is light
SquareColour(sq) == (FileOf(sq) + RankOf(sq)) % 2

\* the material balances the draw is declared for
DrawnMaterial(b) ==
    \/ Others(b, TRUE) = {} /\ Others(b, FALSE) = {}
    \/ Others(b, FALSE) = {} /\ LoneExtra(b, TRUE, {"Bishop", "Knight"})
    \/ Others(b, TRUE) = {} /\ LoneExtra(b, FALSE, {"Bishop", "Knight"})
    \/ /\ LoneExtra(b, TRUE, {"Bishop"})
       /\ LoneExtra(b, FALSE, {"Bishop"})
       /\ \A ws \in Others(b, TRUE) : \A bs \in Others(b, FALSE) :
              SquareColour(ws) = SquareColour(bs)

\* C21: the insufficient-material test holds exactly for king against king,
\* king against king and one bishop or knight (either side), and king and
\* bishop against king and bishop with both bishops on squares of one colour.
C21_InsufficientMaterial ==
    is_insufficient_material(board) <=> DrawnMaterial(board)

\* check_gamestate has declared the draw for two bishops on one colour
C21_Witness ==
    /\ game_state = Draw("InsufficientMaterial")
    /\ board.piece_locs[Sq(3, 3)] = Piece("Bishop", TRUE)
    /\ board.piece_locs[Sq(2, 6)] = Piece("Bishop", FALSE)
    /\ DrawnMaterial(board)

\* the first of the three draws that holds, else Continue
FirstDraw(b, position_hist) ==
    IF DrawnMaterial(b) THEN Draw("InsufficientMaterial")
    ELSE IF \E key \in DOMAIN position_hist : position_hist[key] >= 3
    THEN Draw("ThreefoldRepitition")
    ELSE IF b.half_move_clock >= 100 THEN Draw("FiftyMove")
    ELSE Continue

\* C26: when the side to move has a legal move, check_gamestate tests
\* insufficient material, then threefold repetition (a count of at least 3 in
\* the counter handed in), then the fifty-move rule (a half-move clock of at
\* least 100), returns the draw of the first test that holds, and Continue
\* when none holds.
C26_DrawOrder ==
    HasSafeMove(board)
        => check_gamestate(board, position_counter) = FirstDraw(board, position_counter)

\* a position counted three times with the clock at 100 and material to mate
\* with: check_gamestate has returned the repetition draw
C26_Witness ==
    /\ game_state = Draw("ThreefoldRepitition")
    /\ HasSafeMove(board)
    /\ ~DrawnMaterial(board)
    /\ board.half_move_clock >= 100
    /\ \E key \in DOMAIN position_counter : position_counter[key] >= 3

----------------------------------------------------------------------------
(* Properties of move generation *)

\* the (piece, destination) pairs gen_moves produces for the side to move
\* that do not leave its king in check
LegalPairs(b) ==
    {pair \in get_player_pieces(b, b.is_white) \X Squares :
        /\ pair[2] \in gen_moves(b, pair[1])
        /\ ~causes_check(b, TurnNew(pair[1], b.piece_locs[pair[1]], pair[2]), b.is_white)}

\* C22: in the standard starting position the side to move has exactly 20
\* legal moves.
C22_TwentyMovesAtStart ==
    board = ChessBoardDefault => Cardinality(LegalPairs(board)) = 20

\* the starting position, before a turn or after the turns were taken back:
\* sixteen pawn moves and four knight moves
C22_Witness ==
    /\ board = ChessBoardDefault
    /\ game_hist = <<>>
    /\ Cardinality({pair \in LegalPairs(board) :
                       board.piece_locs[pair[1]].piece = "Pawn"}) = 16
    /\ Cardinality({pair \in LegalPairs(board) :
                       board.piece_locs[pair[1]].piece = "Knight"}) = 4

----------------------------------------------------------------------------
(* Properties of the notation *)

\* the turns handed to the validation in a position: those typed next, the
\* turn Turn::new builds for every piece and generated destination, the same
\* with each promotion, and both castlings
OfferedTurns(b) ==
    NextInputs(Book, game_hist)
        \cup UNION {{TurnNew(loc, b.piece_locs[loc], dst) : dst \in gen_moves(b, loc)} :
                       loc \in get_player_pieces(b, b.is_white)}
        \cup LegalMoves(b)
        \cup {Castling("Short", 0), Castling("Long", 0)}

\* the accepted ones, completed
AcceptedTurns(b) ==
    {validate_and_complete_turn(b, t).val :
        t \in {o \in OfferedTurns(b) : validate_and_complete_turn(b, o).ok}}

\* the same piece kind, destination and promotion, or the same castling
SameTurn(t, u) ==
    /\ t.kind = u.kind
    /\ t.kind = "Move" => t.piece = u.piece /\ t.dst = u.dst /\ t.promotion = u.promotion
    /\ t.kind = "Castling" => t.castling = u.castling

\* the text of the turn parses to the same turn
ReadsBack(t) ==
    /\ parse_move(TurnStr(t)).ok
    /\ SameTurn(parse_move(TurnStr(t)).val, t)

\* C23: for every turn the validation accepts in a reached position, with
\* the flags gen_flags sets, rendering the turn and parsing the text succeeds
\* and gives a turn of the same piece kind, destination and promotion, or
\* the same castling kind.
C23_NotationRoundTrip ==
    \A t \in AcceptedTurns(board) : ReadsBack(gen_flags(board, t))

----------------------------------------------------------------------------
(* Properties of the castling validation *)

\* some piece of the side not to move targets the square
Attacked(b, sq) == \E s \in get_player_pieces(b, ~b.is_white) : sq \in gen_targets(b, s)

\* the back rank of the side to move, as a rank number
HomeRank(b) == IF b.is_white THEN 1 ELSE 8

\* the squares the king passes through or ends on: f and g, or d and c
KingPath(b, castling_type) ==
    IF castling_type = "Short" THEN {Sq(5, HomeRank(b)), Sq(6, HomeRank(b))}
    ELSE {Sq(3, HomeRank(b)), Sq(2, HomeRank(b))}

\* the squares between the king and the rook: f and g, or d, c and b
Between(b, castling_type) ==
    IF castling_type = "Short" THEN {Sq(5, HomeRank(b)), Sq(6, HomeRank(b))}
    ELSE {Sq(3, HomeRank(b)), Sq(2, HomeRank(b)), Sq(1, HomeRank(b))}

\* the king stands attacked, or a square of its path is
ThroughCheck(b, castling_type) ==
    \/ is_in_check(b, b.is_white)
    \/ \E sq \in KingPath(b, castling_type) : Attacked(b, sq)

PathBlocked(b, castling_type) == \E sq \in Between(b, castling_type) : is_some(b, sq)

\* the answer of the validation to a castling turn: "None" for accepted
CastlingAnswer(b, castling_type) ==
    validate_and_complete_turn(b, Castling(castling_type, 0)).err

\* the answer the priority of the three tests gives
CastlingPriority(b, castling_type) ==
    IF ThroughCheck(b, castling_type) THEN "CastleThroughCheck"
    ELSE IF PathBlocked(b, castling_type) THEN "CastlePathBlocked"
    ELSE IF ~castling_right(b, castling_type = "Short") THEN "CastleLostRights"
    ELSE "None"

\* C24: a castling turn gets CastleThroughCheck if the king's square or a
\* square of its path is attacked, otherwise CastlePathBlocked if a square
\* between king and rook is occupied, otherwise CastleLostRights if the right
\* is not held, and is accepted only when none of the three holds.
C24_CastlingErrorPriority ==
    \A castling_type \in {"Short", "Long"} :
        CastlingAnswer(board, castling_type) = CastlingPriority(board, castling_type)

\* C25: a castling turn is rejected with CastleThroughCheck exactly when the
\* king's square or a square the king passes through or ends on is attacked;
\* an attack on the b-file square alone does not cause it.
C25_ThroughCheckExact ==
    \A castling_type \in {"Short", "Long"} :
        CastlingAnswer(board, castling_type) = "CastleThroughCheck"
            <=> ThroughCheck(board, castling_type)

----------------------------------------------------------------------------
(* Properties of the reached boards *)

\* the king and the rook a castling right is about
RightKing(r) == IF r \in {"white_kingside", "white_queenside"} THEN E1 ELSE E8

RightRook(r) ==
    CASE r = "white_kingside" -> H1 [] r = "white_queenside" -> A1
      [] r = "black_kingside" -> H8 [] r = "black_queenside" -> A8

RightIsWhite(r) == r \in {"white_kingside", "white_queenside"}

\* C27: in every reached board a held castling right implies that the king
\* and the rook of that colour stand on their starting squares.
C27_HeldRightsMeanHomeSquares ==
    \A r \in CastlingRightNames :
        board.castling[r] =>
            /\ board.piece_locs[RightKing(r)] = Piece("King", RightIsWhite(r))
            /\ board.piece_locs[RightRook(r)] = Piece("Rook", RightIsWhite(r))

\* C29: in every reached board each colour has exactly one king.
C29_OneKingEach ==
    \A w \in BOOLEAN : Cardinality(find_pieces(board, Piece("King", w))) = 1

----------------------------------------------------------------------------
(* Properties of make_move *)

\* C28: when make_move returns an error, from the validation or from the
\* flag enforcement, the board, the history, the position counter and the
\* stored game state are what they were before the call.
C28_ErrorLeavesGameUnchanged ==
    [][\A turn \in NextInputs(Book, game_hist) :
          (make_move(turn) /\ ~MakeMoveResult(board, enforce_flags, turn).ok)
              => UNCHANGED <<board, game_hist, position_counter, game_state>>]_vars

\* turns have been played, and of the turns typed next one is refused by the
\* validation and one, which the validation accepts, by the flag enforcement
C28_Witness ==
    /\ game_hist # <<>>
    /\ enforce_flags
    /\ \E turn \in NextInputs(Book, game_hist) :
          ~validate_and_complete_turn(board, turn).ok
    /\ \E turn \in NextInputs(Book, game_hist) :
          /\ validate_and_complete_turn(board, turn).ok
          /\ ~MakeMoveResult(board, enforce_flags, turn).ok

----------------------------------------------------------------------------
(* Properties of gen_flags *)

\* C30: for every turn the validation accepts, enforce_flags on the turn
\* with the flags gen_flags gives it returns no flag-mismatch error: it
\* returns Ok or KingInCheck.
C30_GeneratedFlagsPass ==
    \A t \in AcceptedTurns(board) :
        enforce_flags_err(board, gen_flags(board, t)) \in {"None", "KingInCheck"}

\* of the accepted turns of the position one gives check and passes with its
\* generated flags, and one leaves the mover in check and gets KingInCheck
C30_Witness ==
    /\ \E t \in AcceptedTurns(board) :
          /\ is_flag_set(gen_flags(board, t).flags, CHECK)
          /\ enforce_flags_err(board, gen_flags(board, t)) = "None"
    /\ \E t \in AcceptedTurns(board) :
          enforce_flags_err(board, gen_flags(board, t)) = "KingInCheck"

====
